---- MODULE Spec2Model ----
(***************************************************************************)
(* Voidhack ship computer: the command interpretation and progression      *)
(* engine (server/game_logic.py, server/database.py), the key/value store  *)
(* it runs on (mock_redis.py) and the WebSocket handlers that reach it     *)
(* (main.py).                                                              *)
(*                                                                         *)
(* The server is one asyncio event loop with a synchronous store client:   *)
(* a handler runs without interruption from one await to the next, so one  *)
(* action is the code between two awaits.  process_command_logic awaits    *)
(* only the model call, so it is two actions: Command (up to the await)    *)
(* and LLMReturn (from the await to the return).                           *)
(*                                                                         *)
(* Strings are modelled as sequences of symbols: a word, a digit or a      *)
(* punctuation mark is one symbol.  A command text is a record of its      *)
(* lower-cased words, whether the original had capitals, and whether it    *)
(* had leading/trailing blanks.                                            *)
(*                                                                         *)
(* database.r is a redis.Redis client or, when USE_MOCK_REDIS is set or no *)
(* server answers, a MockRedis; `backend` records which.  A MockRedis      *)
(* starts empty and has no hexists, so update_leaderboard raises on it for *)
(* a user hash that exists.                                                *)
(*                                                                         *)
(* Spec         all handlers, two users, MaxOps steps.                     *)
(* SpecOneUser  one user's commands and registrations, MaxOneUserOps       *)
(*              steps, several commands waiting for the model at once.     *)
(* SpecKey      generate_semantic_key applied to pairs of inputs.          *)
(* SpecFastPath the texts the rules of process_turbo_mode are asked about, *)
(*              two users.                                                 *)
(* SpecTTL      one user's sessions and cache entries, and the passing of  *)
(*              the 300 s after which their keys expire.                   *)
(* SpecBoot     init_db on the store the process finds, commands, init_db  *)
(*              again.                                                     *)
(* SpecAwards   update_leaderboard one store operation at a time, for      *)
(*              processes that share one Redis server.                     *)
(* SpecBroadcast the connection manager, the handlers that broadcast and   *)
(*              the leak simulator, one send at a time.                    *)
(* SpecParse    the parsing of the model's raw output, applied to          *)
(*              sequences of lexemes.                                      *)
(* SpecMock     get_mock_llm_response called repeatedly with one text on   *)
(*              one ship state.                                            *)
(* SpecGates    commands that hold restricted phrases and fast-path        *)
(*              patterns, location updates and the leak trigger.           *)
(* SpecPromo    every handler, with model results whose mission_success    *)
(*              is true, false, a string, a number or absent.              *)
(* SpecCache    one text, every kind of model result, and a cache entry    *)
(*              that is not JSON.                                          *)
(* SpecZRange   MockRedis.zrevrange applied to sorted sets and indices.    *)
(***************************************************************************)
EXTENDS Integers, Sequences, FiniteSets, TLC

VARIABLES
    ship,         \* hash ship:systems
    users,        \* users[u]: hash user:<u>; the empty function when the key is absent
    leaderboard,  \* sorted set leaderboard: member -> score
    auth,         \* keys auth_session:<u> that exist, with their code
    cache,        \* keys sem_cache:<hash> that exist, with the stored result
    backend,      \* which client database.r is: "redis" or "mock"
    tables,       \* the keys init_db writes: max_rank_level, rank:<n>, mission:<n>
    awards,       \* update_leaderboard calls in progress, one store operation at a time
    conns,        \* manager.active_connections, in list order
    sessions,     \* per WebSocket: its transport, its handler, the state updates it was sent
    casts,        \* per initiator: its manager.broadcast call in progress
    reqs,         \* process_command_logic invocations: idle or awaiting the model
    last,         \* what the handler step that ran last was given and returned
    nops,         \* number of handler steps taken so far
    probe         \* inputs and results of the pure functions checked on their own

vars == <<ship, users, leaderboard, auth, cache, backend, tables, awards, conns, sessions, casts, reqs, last, nops, probe>>

----------------------------------------------------------------------------
(* Bounds of the exploration *)

MaxOps == 3     \* handler steps explored from each initial state
MaxOneUserOps == 6  \* handler steps explored when one user alone acts
MaxFastPathOps == 3 \* handler steps explored for the fast-path commands
MaxTTLOps == 4      \* handler steps explored around the expiry of keys
MaxBootOps == 4     \* steps explored around init_db
MaxAwards == 3      \* update_leaderboard calls followed operation by operation
MaxCastOps == 6     \* steps explored for the connection manager
MaxPromoOps == 3    \* steps explored for the promotion rule
MaxCacheOps == 4    \* steps explored for the semantic cache
MaxZIndex == 5      \* largest index given to zrevrange, in absolute value
MaxGateOps == 4     \* steps explored for the order of the gates
MaxRawLen == 3      \* lexemes of the model outputs enumerated in full
MaxMockLen == 2     \* words of the commands given to the mock model
MaxMockCalls == 2   \* calls of the mock model compared with each other
MaxReq == 2     \* invocations of process_command_logic that can be in flight at once

UserIds == {"u1", "u2"}
ReqIds == 1..MaxReq

----------------------------------------------------------------------------
(* Fixed tables *)

\* init_db: ranks = {0: 'Cadet', ..., 5: 'Admiral'}
Ranks == <<"Cadet", "Ensign", "Lieutenant", "Commander", "Captain", "Admiral">>

\* init_db: pipe.set("max_rank_level", str(len(ranks) - 1))
max_rank_level == Len(Ranks) - 1

\* r.hgetall(f"rank:{level}").get('title'); the table holds rank:0 .. rank:5 only
RankTitle(level) ==
    IF level \in 0..max_rank_level THEN Ranks[level + 1] ELSE "Unknown Rank"

\* init_db: missions 1..6
NumMissions == 6

VALID_LOCATIONS ==
    <<"Bridge", "Engineering", "Ten Forward", "Sickbay", "Cargo Bay", "Jefferies Tube">>

\* RESTRICTED_COMMANDS, in the dict's iteration order
RESTRICTED_COMMANDS == <<
    [command |-> <<"eject", "warp", "core">>,        loc |-> "Engineering"],
    [command |-> <<"purge", "coolant">>,             loc |-> "Engineering"],
    [command |-> <<"medical", "override">>,          loc |-> "Sickbay"],
    [command |-> <<"quarantine">>,                   loc |-> "Sickbay"],
    [command |-> <<"cargo", "release">>,             loc |-> "Cargo Bay"],
    [command |-> <<"jettison", "cargo">>,            loc |-> "Cargo Bay"],
    [command |-> <<"jefferies", "tube", "access">>,  loc |-> "Jefferies Tube"] >>

\* init_db: the default ship:systems hash
DefaultShip ==
    [shields |-> 100, impulse |-> 25, warp |-> 0, phasers |-> 0,
     life_support |-> 100, radiation_leak |-> 0]

\* The keys init_db writes through its pipeline, and their absence
NoTables == <<>>
BootTables ==
    [max_rank_level |-> max_rank_level,
     rank |-> [level \in 0..max_rank_level |-> [title |-> Ranks[level + 1]]],
     mission |-> 1..NumMissions]

----------------------------------------------------------------------------
(* Fixed responses *)

LockoutResponse ==
    "Cannot comply. Bridge controls are locked out due to the radiation alert."
LocationDeniedResponse == "Access Denied. Command requires physical presence."
StatusResponse == "All systems nominal. Current ship status is:"
FalkenResponse == "Greetings, Professor Falken. Shall we play a game?"
AuthInitiatedResponse == "Authentication sequence initiated. Your session code is"
RankDeniedResponse ==
    "Access Denied. Authorization level insufficient. Rank of Commander or higher required."
AuthorizedResponse == "Session has been authorized. Security systems disengaged."
InvalidCodeResponse == "Invalid session code"
AwaitingResponse == "Awaiting command."
TimeoutResponse ==
    "Processing delay. The main computer is rerouting power to compensation circuits."
OfflineResponse ==
    "Unable to access the knowledge database. Sensor arrays are offline."
CorruptionResponse == "Data corruption detected. Unable to parse logic stream."
CriticalResponse == "A critical system failure has occurred. Diagnostics initiated."

NoUpdates == <<>>

\* An exception left process_command_logic: websocket_endpoint's except
\* clause drops the connection and no command_response is sent
NoResult == [updates |-> NoUpdates, response |-> "(no response: connection closed)"]

----------------------------------------------------------------------------
(* The store: MockRedis / Redis hashes, strings and the sorted set *)

\* The five keyspaces as one value, so that a handler's store calls compose
Store ==
    [ship |-> ship, users |-> users, leaderboard |-> leaderboard,
     auth |-> auth, cache |-> cache, backend |-> backend, tables |-> tables]

\* database.r is a redis.Redis client, or a MockRedis when USE_MOCK_REDIS is
\* set or no Redis server answers
Backends == {"redis", "mock"}

\* hset(name, mapping=m): the given fields are overwritten, the others kept
HSet(h, m) ==
    [f \in (DOMAIN h) \cup (DOMAIN m) |-> IF f \in DOMAIN m THEN m[f] ELSE h[f]]

\* exists(name)
Exists(h) == DOMAIN h # {}

\* hexists(name, key) of redis.Redis
HExists(h, f) == f \in DOMAIN h

\* MockRedis defines no hexists: the call raises AttributeError
HExistsRaises(s) == s.backend = "mock"

\* int(r.hget(name, key) or 0)
HGetInt(h, f) == IF f \in DOMAIN h THEN h[f] ELSE 0

\* hincrby(name, key, amount): an absent field counts as 0
HIncrBy(h, f, amount) == HSet(h, (f :> (HGetInt(h, f) + amount)))

\* delete(name) on a string key
Delete(m, k) == [x \in (DOMAIN m) \ {k} |-> m[x]]

\* set(name, value, ex=...) on a string key
SetKey(m, k, v) == [x \in (DOMAIN m) \cup {k} |-> IF x = k THEN v ELSE m[x]]

----------------------------------------------------------------------------
(* server/database.py *)

\* f"Cadet {uuid[:5]}"
DefaultName(uuid) == "Cadet " \o uuid

\* Mutant: the default profile is written on every award
update_leaderboard_AlwaysReset(s, uuid, xp_to_add) ==
    LET h1 == HSet(s.users[uuid],
                   [name |-> DefaultName(uuid), rank |-> "Cadet", rank_level |-> 0,
                    mission_stage |-> 1, current_location |-> "Bridge"])
        h2 == HIncrBy(h1, "xp", xp_to_add)
    IN [s EXCEPT !.users[uuid] = h2,
                 !.leaderboard = SetKey(s.leaderboard, uuid, h2.xp)]

\* Line 138: `not r.exists(user_key) or not r.hexists(user_key, "name")`
\* reaches hexists when the hash exists
update_leaderboard_raises(s, uuid) ==
    Exists(s.users[uuid]) /\ HExistsRaises(s)

\* The store after a call that does not raise
update_leaderboard(s, uuid, xp_to_add) ==
    LET h0 == s.users[uuid]
        h1 == IF ~Exists(h0) \/ ~HExists(h0, "name")
              THEN HSet(h0, [name |-> DefaultName(uuid), rank |-> "Cadet",
                             rank_level |-> 0, mission_stage |-> 1,
                             current_location |-> "Bridge"])
              ELSE h0
        h2 == HIncrBy(h1, "xp", xp_to_add)
    IN [s EXCEPT !.users[uuid] = h2,
                 !.leaderboard = SetKey(s.leaderboard, uuid, h2.xp)]

\* main.py's own update_leaderboard, used by main.py's WebSocket handlers
update_leaderboard_main(s, uuid, xp_to_add) ==
    LET h2 == HIncrBy(s.users[uuid], "xp", xp_to_add)
    IN [s EXCEPT !.users[uuid] = h2,
                 !.leaderboard = SetKey(s.leaderboard, uuid, h2.xp)]

get_user_rank_data(s, uuid) ==
    LET h == s.users[uuid] IN
    IF ~Exists(h)
    THEN [rank_level |-> 0, title |-> "Cadet", mission_stage |-> 1,
          current_location |-> "Bridge"]
    ELSE LET lvl == HGetInt(h, "rank_level")
             d   == HSet(h, [rank_level |-> lvl,
                             mission_stage |-> IF HExists(h, "mission_stage")
                                               THEN h.mission_stage ELSE 1])
         IN IF lvl \in 0..max_rank_level
            THEN HSet(d, [title |-> RankTitle(lvl)])
            ELSE d

\* Mutant: no ceiling, every success promotes
promote_user_NoCeiling(s, uuid) ==
    LET h0 == s.users[uuid]
        new_level == HGetInt(h0, "rank_level") + 1
        h3 == HIncrBy(HSet(h0, [rank_level |-> new_level, rank |-> RankTitle(new_level)]),
                      "mission_stage", 1)
        s1 == [s EXCEPT !.users[uuid] = h3]
    IN IF update_leaderboard_raises(s1, uuid)
       THEN [s |-> s1, success |-> FALSE, rank |-> "", raised |-> TRUE]
       ELSE [s |-> update_leaderboard(s1, uuid, 1000),
             success |-> TRUE, rank |-> RankTitle(new_level), raised |-> FALSE]

\* Returns the new store, the success flag and the rank title; raised when
\* update_leaderboard raises after pipe.execute()
promote_user(s, uuid) ==
    LET h0 == s.users[uuid]
        current_level == HGetInt(h0, "rank_level")
    IN IF current_level < max_rank_level
       THEN LET new_level == current_level + 1
                new_rank_title == RankTitle(new_level)
                h1 == HSet(h0, [rank_level |-> new_level])
                h2 == HSet(h1, [rank |-> new_rank_title])
                h3 == HIncrBy(h2, "mission_stage", 1)
                s1 == [s EXCEPT !.users[uuid] = h3]
            IN IF update_leaderboard_raises(s1, uuid)
               THEN [s |-> s1, success |-> FALSE, rank |-> "", raised |-> TRUE]
               ELSE [s |-> update_leaderboard(s1, uuid, 1000),
                     success |-> TRUE, rank |-> new_rank_title, raised |-> FALSE]
       ELSE [s |-> s, success |-> FALSE, rank |-> RankTitle(max_rank_level),
             raised |-> FALSE]

----------------------------------------------------------------------------
(* Command texts *)

Txt(words, caps, pad) == [w |-> words, caps |-> caps, pad |-> pad]

\* str.lower()
Lower(t) == [t EXCEPT !.caps = FALSE]

\* str.strip()
Strip(t) == [t EXCEPT !.pad = FALSE]

\* `phrase in text` (RESTRICTED_COMMANDS) and the \b(...)\b patterns of turbo
\* mode: the phrase's words occur contiguously in the text
Contains(words, phrase) ==
    \E i \in 1..(Len(words) - Len(phrase) + 1) :
        SubSeq(words, i, i + Len(phrase) - 1) = phrase

\* random.randint(1000, 9999), as written by str(); two of the codes
Codes == {"1234", "5678"}

\* The commands sent by clients
Texts == {
    Txt(<<"analyze", "anomaly">>, FALSE, FALSE),
    Txt(<<"eject", "warp", "core">>, FALSE, FALSE),
    Txt(<<"eject", "warp", "core", "and", "quarantine">>, FALSE, FALSE),
    Txt(<<"status", "report">>, FALSE, FALSE),
    Txt(<<"initiate", "auth">>, FALSE, FALSE),
    Txt(<<"authorize", "session", "1234">>, FALSE, FALSE) }

----------------------------------------------------------------------------
(* server/game_logic.py: the location gate *)

\* Indices of the RESTRICTED_COMMANDS entries whose phrase is in the text
PhrasesIn(text) ==
    {i \in DOMAIN RESTRICTED_COMMANDS : Contains(text.w, RESTRICTED_COMMANDS[i].command)}

\* user_data.get('current_location', 'Bridge')
LocationOf(user_data) ==
    IF "current_location" \in DOMAIN user_data
    THEN user_data.current_location ELSE "Bridge"

\* Mutant: the loop stops at the first phrase found in the text
LocationMismatches_FirstPhraseOnly(text, current_location) ==
    {i \in PhrasesIn(text) :
        /\ \A j \in PhrasesIn(text) : i <= j
        /\ current_location # RESTRICTED_COMMANDS[i].loc}

\* The entries the loop of lines 186-188 can return on
LocationMismatches(text, current_location) ==
    {i \in PhrasesIn(text) : current_location # RESTRICTED_COMMANDS[i].loc}

\* The first entry, in iteration order, that denies the command
FirstMismatch(text, current_location) ==
    CHOOSE i \in LocationMismatches(text, current_location) :
        \A j \in LocationMismatches(text, current_location) : i <= j

LocationDenial(text, current_location) ==
    LET e == RESTRICTED_COMMANDS[FirstMismatch(text, current_location)]
    IN [updates |-> NoUpdates, response |-> LocationDeniedResponse,
        command |-> e.command, required_loc |-> e.loc,
        current_loc |-> current_location]

----------------------------------------------------------------------------
(* server/game_logic.py: generate_semantic_key *)

\* str(n) for n >= 0: the decimal digits
DigitSymbols == <<"0", "1", "2", "3", "4", "5", "6", "7", "8", "9">>
RECURSIVE Digits(_)
Digits(n) ==
    IF n < 10 THEN <<DigitSymbols[n + 1]>>
    ELSE Digits(n \div 10) \o <<DigitSymbols[(n % 10) + 1]>>

\* The words of a text joined by blanks
RECURSIVE Join(_)
Join(words) ==
    IF Len(words) = 0 THEN <<>>
    ELSE IF Len(words) = 1 THEN <<words[1]>>
    ELSE <<words[1], " ">> \o Join(Tail(words))

\* The symbols of a text as typed: capitals and surrounding blanks included
Render(t) ==
    LET body == IF t.caps THEN <<"^">> \o Join(t.w) ELSE Join(t.w)
    IN IF t.pad THEN <<" ">> \o body \o <<" ">> ELSE body

\* f"{value}" of user_data.get(field): None when the field is absent
FmtInt(user_data, f) ==
    IF f \in DOMAIN user_data THEN Digits(user_data[f]) ELSE <<"None">>
FmtStr(user_data, f) ==
    IF f \in DOMAIN user_data THEN <<user_data[f]>> ELSE <<"None">>

\* Mutant: the location is left out of the context
context_str_NoLocation(user_data) ==
    FmtInt(user_data, "rank_level") \o <<"-">> \o FmtInt(user_data, "mission_stage")

context_str(user_data) ==
    FmtInt(user_data, "rank_level") \o <<"-">> \o
    FmtInt(user_data, "mission_stage") \o <<"-">> \o
    FmtStr(user_data, "current_location")

\* raw_key; sha256 and the sem_cache: prefix are one-to-one on it
generate_semantic_key(text, user_data) ==
    context_str(user_data) \o <<":">> \o Render(Strip(Lower(text)))

----------------------------------------------------------------------------
(* server/game_logic.py: process_turbo_mode *)

\* The first pattern of `patterns`, in the dict's order, that the text matches
TurboRule(text) ==
    IF \E x \in {"status", "report"} : Contains(text.w, <<x>>) THEN "status"
    ELSE IF \E x \in {"joshua", "000-destruct-0"} : Contains(text.w, <<x>>) THEN "falken"
    ELSE IF Contains(text.w, <<"initiate", "auth">>) THEN "initiate_auth"
    ELSE IF \E c \in Codes : Contains(text.w, <<"authorize", "session", c>>)
         THEN "authorize_session"
    ELSE IF Contains(text.w, <<"computer">>) THEN "computer"
    ELSE "none"

\* r.hget(f'user:{id}', 'name'): None when the hash or the field is absent
NameOf(s, uuid) ==
    IF HExists(s.users[uuid], "name") THEN s.users[uuid].name ELSE "None"

\* The store and result handle_initiate_auth can leave: one per random code
handle_initiate_auth(s, user_id) ==
    {[s |-> [s EXCEPT !.auth = SetKey(s.auth, user_id, c)], raised |-> FALSE,
      res |-> [updates |-> NoUpdates, response |-> AuthInitiatedResponse,
               name |-> NameOf(s, user_id), code |-> c]] : c \in Codes}

\* m.group(2) of the authorize-session pattern
SessionCode(text) ==
    CHOOSE c \in Codes : Contains(text.w, <<"authorize", "session", c>>)

\* Variant: the session key is left in place after the awards
AuthorizeKey_KeepsSession(s, user_id, k, session_code) ==
    LET s2 == update_leaderboard(s, user_id, 50)
    IN IF update_leaderboard_raises(s, user_id)
       THEN [s |-> s, raised |-> TRUE, res |-> NoResult]
       ELSE IF update_leaderboard_raises(s2, k)
       THEN [s |-> s2, raised |-> TRUE, res |-> NoResult]
       ELSE [s |-> update_leaderboard(s2, k, 50), raised |-> FALSE,
             res |-> [updates |-> [shields |-> 0, phasers |-> 0],
                      response |-> AuthorizedResponse, code |-> session_code,
                      initiator |-> NameOf(s, k),
                      authorizer |-> NameOf(s, user_id)]]

\* Lines 141-145 for the session key k: the key is deleted, then the two
\* awards are made; an award that raises ends the handler there
AuthorizeKey(s, user_id, k, session_code) ==
    LET s1 == [s EXCEPT !.auth = Delete(s.auth, k)]
        s2 == update_leaderboard(s1, user_id, 50)
    IN IF update_leaderboard_raises(s1, user_id)
       THEN [s |-> s1, raised |-> TRUE, res |-> NoResult]
       ELSE IF update_leaderboard_raises(s2, k)
       THEN [s |-> s2, raised |-> TRUE, res |-> NoResult]
       ELSE [s |-> update_leaderboard(s2, k, 50), raised |-> FALSE,
             res |-> [updates |-> [shields |-> 0, phasers |-> 0],
                      response |-> AuthorizedResponse, code |-> session_code,
                      initiator |-> NameOf(s, k),
                      authorizer |-> NameOf(s, user_id)]]

\* Variant: the code is looked up before the rank is
handle_authorize_session_CodeFirst(s, text, user_id) ==
    LET session_code == SessionCode(text)
        auth_rank_level == HGetInt(s.users[user_id], "rank_level")
        matching == {k \in DOMAIN s.auth : s.auth[k] = session_code}
    IN IF matching = {}
       THEN {[s |-> s, raised |-> FALSE,
              res |-> [updates |-> NoUpdates, response |-> InvalidCodeResponse,
                       code |-> session_code]]}
       ELSE IF auth_rank_level < 3
       THEN {[s |-> s, raised |-> FALSE,
              res |-> [updates |-> NoUpdates, response |-> RankDeniedResponse]]}
       ELSE {AuthorizeKey(s, user_id, k, session_code) : k \in matching}

\* r.keys("auth_session:*") comes in no promised order: the loop returns on
\* whichever matching key it meets first
handle_authorize_session(s, text, user_id) ==
    LET session_code == SessionCode(text)
        auth_rank_level == HGetInt(s.users[user_id], "rank_level")
        matching == {k \in DOMAIN s.auth : s.auth[k] = session_code}
    IN IF auth_rank_level < 3
       THEN {[s |-> s, raised |-> FALSE,
              res |-> [updates |-> NoUpdates, response |-> RankDeniedResponse]]}
       ELSE IF matching = {}
       THEN {[s |-> s, raised |-> FALSE,
              res |-> [updates |-> NoUpdates, response |-> InvalidCodeResponse,
                       code |-> session_code]]}
       ELSE {AuthorizeKey(s, user_id, k, session_code) : k \in matching}

\* The outcomes of process_turbo_mode for a text that matches a pattern
process_turbo_mode(s, text, user_id) ==
    CASE TurboRule(text) = "status" ->
            {[s |-> s, raised |-> FALSE,
              res |-> [updates |-> NoUpdates, response |-> StatusResponse,
                       status |-> s.ship]]}
      [] TurboRule(text) = "falken" ->
            {[s |-> s, raised |-> FALSE,
              res |-> [updates |-> NoUpdates, response |-> FalkenResponse]]}
      [] TurboRule(text) = "initiate_auth" -> handle_initiate_auth(s, user_id)
      [] TurboRule(text) = "authorize_session" ->
            handle_authorize_session(s, text, user_id)
      [] TurboRule(text) = "computer" ->
            {[s |-> s, raised |-> FALSE,
              res |-> [updates |-> NoUpdates, response |-> AwaitingResponse]]}

----------------------------------------------------------------------------
(* Model results *)

\* JSON values an updates map can carry
JInt(n) == [kind |-> "int", n |-> n]
JFloat(n, frac) == [kind |-> "float", n |-> n, frac |-> frac]
JStr(text) == [kind |-> "str", text |-> text]
JBool(b) == [kind |-> "bool", b |-> b]

\* int(v): truncates a float, raises ValueError on a string that is no number
IntRaises(v) == v.kind = "str"
IntOf(v) == v.n

\* The parsed `data` of a model reply
ModelData == {
    [updates |-> NoUpdates, response |-> "Acknowledged."],
    [updates |-> [shields |-> JInt(150), warp |-> JFloat(5, 5)],
     response |-> "Shields adjusted."],
    [updates |-> NoUpdates, response |-> "Well done.", mission_success |-> JBool(TRUE)],
    [updates |-> [phasers |-> JInt(75)], response |-> "Well done.",
     mission_success |-> JBool(TRUE)],
    [updates |-> [warp |-> JStr("maximum")], response |-> "Well done.",
     mission_success |-> JBool(TRUE)] }

\* What `await client.post(...)` / raise_for_status() can end in
LLMOutcomes ==
    {[kind |-> "timeout"], [kind |-> "http_error"]} \cup
    {[kind |-> "ok", data |-> d] : d \in ModelData}

\* Variant: any value that is not false, zero or empty counts
MissionSuccess_Truthy(data) ==
    /\ "mission_success" \in DOMAIN data
    /\ data.mission_success \notin {JBool(FALSE), JInt(0), JStr("")}

\* data.get("mission_success") is True
MissionSuccess(data) ==
    "mission_success" \in DOMAIN data /\ data.mission_success = JBool(TRUE)

----------------------------------------------------------------------------
(* server/game_logic.py: process_command_logic *)

\* No result yet: the invocation is suspended at the model call
Pending == [updates |-> NoUpdates, response |-> "(awaiting the model)"]

\* Mutant: the flag is read from a field that is never written
LeakActive_WrongField(s) == HGetInt(s.ship, "radiation") # 0

\* int(r.hget("ship:systems", "radiation_leak") or 0)
LeakActive(s) == HGetInt(s.ship, "radiation_leak") # 0

\* Lines 190-196: the fast path's store writes and its result
\* Variant: the updates are written one field per hset and the handler is
\* left after the first
ApplyTurbo_OneFieldOnly(o, user_id) ==
    IF o.raised THEN [s |-> o.s, path |-> "exception", res |-> NoResult]
    ELSE IF o.res.updates # NoUpdates
    THEN LET f == CHOOSE x \in DOMAIN o.res.updates : TRUE
             s1 == [o.s EXCEPT !.ship = HSet(o.s.ship, (f :> o.res.updates[f]))]
         IN [s |-> s1, path |-> "turbo", res |-> o.res]
    ELSE [s |-> o.s, path |-> "turbo", res |-> o.res]

ApplyTurbo(o, user_id) ==
    IF o.raised THEN [s |-> o.s, path |-> "exception", res |-> NoResult]
    ELSE IF o.res.updates # NoUpdates
    THEN LET s1 == [o.s EXCEPT !.ship = HSet(o.s.ship, o.res.updates)]
         IN IF update_leaderboard_raises(s1, user_id)
            THEN [s |-> s1, path |-> "exception", res |-> NoResult]
            ELSE [s |-> update_leaderboard(s1, user_id, 10), path |-> "turbo",
                  res |-> o.res]
    ELSE [s |-> o.s, path |-> "turbo", res |-> o.res]

\* Mutant: rank_up is set without looking at promote_user's success flag
HandlePromotion_IgnoresSuccess(s, user_id, data) ==
    IF MissionSuccess(data)
    THEN LET p == promote_user(s, user_id)
         IN [s |-> p.s, raised |-> p.raised,
             data |-> [data EXCEPT !.updates = HSet(data.updates, [rank_up |-> p.rank])]]
    ELSE [s |-> s, raised |-> FALSE, data |-> data]

\* Lines 284-288: promotion on mission success
HandlePromotion(s, user_id, data) ==
    IF MissionSuccess(data)
    THEN LET p == promote_user(s, user_id)
         IN [s |-> p.s, raised |-> p.raised,
             data |-> IF p.success
                      THEN [data EXCEPT !.updates =
                                HSet(data.updates, [rank_up |-> p.rank])]
                      ELSE data]
    ELSE [s |-> s, raised |-> FALSE, data |-> data]

\* Line 296 raises: update_leaderboard is called and raises
AwardRaises(s, user_id, data) ==
    data.updates # NoUpdates /\ update_leaderboard_raises(s, user_id)

\* Lines 290-296: apply the updates and award XP; int() has not raised.
\* When the award raises, the ship fields are already written.
ApplyUpdates(s, user_id, data) ==
    IF data.updates # NoUpdates
    THEN LET keys == (DOMAIN data.updates) \ {"rank_up"}
             updates == [k \in keys |-> IntOf(data.updates[k])]
             s1 == IF keys # {} THEN [s EXCEPT !.ship = HSet(s.ship, updates)] ELSE s
         IN IF update_leaderboard_raises(s1, user_id)
            THEN s1
            ELSE update_leaderboard(s1, user_id, 10)
    ELSE s

\* Line 293 raises ValueError
UpdatesRaise(data) ==
    \E k \in (DOMAIN data.updates) \ {"rank_up"} : IntRaises(data.updates[k])

\* A stored value that json.loads rejects
CorruptValue == [corrupt |-> "not JSON"]

\* Variant: the stored value is returned without the try/except of line 211
Deserializes_Always(value) == TRUE

\* Lines 211-214: json.loads(cached_response) does not raise JSONDecodeError
Deserializes(value) == value # CorruptValue

\* Mutant: a hit applies the stored updates and the XP bonus again
CacheHit_ReappliesUpdates(s, user_id, cache_key) ==
    [s |-> ApplyUpdates(s, user_id, s.cache[cache_key]), path |-> "cache_hit",
     key |-> cache_key, res |-> s.cache[cache_key]]

\* Lines 209-212: a hit returns json.loads of the stored value
CacheHit(s, user_id, cache_key) ==
    [s |-> s, path |-> "cache_hit", key |-> cache_key, res |-> s.cache[cache_key]]

\* Variant: the fast-path rules are asked before the location gate
CommandStep_FastPathFirst(s, text, user_id) ==
    LET user_data == get_user_rank_data(s, user_id)
        current_location == LocationOf(user_data)
        cache_key == generate_semantic_key(text, user_data)
    IN IF LeakActive(s)
       THEN {[s |-> s, path |-> "lockout", key |-> <<>>,
              res |-> [updates |-> NoUpdates, response |-> LockoutResponse]]}
       ELSE IF TurboRule(Lower(text)) # "none"
       THEN {[s |-> ApplyTurbo(o, user_id).s, path |-> ApplyTurbo(o, user_id).path,
              key |-> <<>>, res |-> ApplyTurbo(o, user_id).res] :
                 o \in process_turbo_mode(s, Lower(text), user_id)}
       ELSE IF LocationMismatches(Lower(text), current_location) # {}
       THEN {[s |-> s, path |-> "location_denied", key |-> <<>>,
              res |-> LocationDenial(Lower(text), current_location)]}
       ELSE IF cache_key \in DOMAIN s.cache /\ Deserializes(s.cache[cache_key])
       THEN {CacheHit(s, user_id, cache_key)}
       ELSE {[s |-> s, path |-> "await_llm", key |-> cache_key, res |-> Pending]}

\* Lines 174-214: from the call to the first return, or to the await of the
\* model call.  The set of possible (store, result, path, cache key).
CommandStep(s, text, user_id) ==
    LET user_data == get_user_rank_data(s, user_id)
        current_location == LocationOf(user_data)
        cache_key == generate_semantic_key(text, user_data)
    IN IF LeakActive(s)
       THEN {[s |-> s, path |-> "lockout", key |-> <<>>,
              res |-> [updates |-> NoUpdates, response |-> LockoutResponse]]}
       ELSE IF LocationMismatches(Lower(text), current_location) # {}
       THEN {[s |-> s, path |-> "location_denied", key |-> <<>>,
              res |-> LocationDenial(Lower(text), current_location)]}
       ELSE IF TurboRule(Lower(text)) # "none"
       THEN {[s |-> ApplyTurbo(o, user_id).s, path |-> ApplyTurbo(o, user_id).path,
              key |-> <<>>, res |-> ApplyTurbo(o, user_id).res] :
                 o \in process_turbo_mode(s, Lower(text), user_id)}
       ELSE IF cache_key \in DOMAIN s.cache /\ Deserializes(s.cache[cache_key])
       THEN {CacheHit(s, user_id, cache_key)}
       ELSE {[s |-> s, path |-> "await_llm", key |-> cache_key, res |-> Pending]}

\* Mutant: the failure narration is cached like a model result
ModelFailure_CachesFailure(s, cache_key, kind) ==
    LET res == [updates |-> NoUpdates,
                response |-> IF kind = "timeout" THEN TimeoutResponse
                             ELSE OfflineResponse]
    IN [s |-> [s EXCEPT !.cache = SetKey(s.cache, cache_key, res)],
        path |-> kind, res |-> res]

\* Lines 303-308: the except clauses for httpx.TimeoutException and for
\* httpx.RequestError / httpx.HTTPStatusError
ModelFailure(s, cache_key, kind) ==
    [s |-> s, path |-> kind,
     res |-> [updates |-> NoUpdates,
              response |-> IF kind = "timeout" THEN TimeoutResponse
                           ELSE OfflineResponse]]

\* Lines 284-314: from the model call's completion to the return
ReturnStep(s, user_id, cache_key, outcome) ==
    IF outcome.kind \in {"timeout", "http_error"}
    THEN ModelFailure(s, cache_key, outcome.kind)
    ELSE LET p == HandlePromotion(s, user_id, outcome.data)
         IN IF p.raised
            THEN [s |-> p.s, path |-> "critical",
                  res |-> [updates |-> NoUpdates, response |-> CriticalResponse]]
            ELSE IF UpdatesRaise(p.data)
            THEN [s |-> p.s, path |-> "data_corruption",
                  res |-> [updates |-> NoUpdates, response |-> CorruptionResponse]]
            ELSE IF AwardRaises(p.s, user_id, p.data)
            THEN [s |-> ApplyUpdates(p.s, user_id, p.data), path |-> "critical",
                  res |-> [updates |-> NoUpdates, response |-> CriticalResponse]]
            ELSE LET s2 == ApplyUpdates(p.s, user_id, p.data)
                 IN [s |-> [s2 EXCEPT !.cache = SetKey(s2.cache, cache_key, p.data)],
                     path |-> "llm_ok", res |-> p.data]

----------------------------------------------------------------------------
(* Initial states *)

NoText == Txt(<<>>, FALSE, FALSE)
Idle == [pc |-> "idle", uid |-> "", text |-> NoText, key |-> <<>>]

\* A profile as the register handler writes it (main.py lines 513-515),
\* after k promotions whose model results carried no other update
Registered(name, k) ==
    [name |-> name, rank |-> RankTitle(1 + k), rank_level |-> 1 + k,
     xp |-> 1 + (1010 * k), mission_stage |-> 1 + k, current_location |-> "Bridge"]

\* A profile as update_leaderboard creates it on a first 10 XP award,
\* after k such promotions
ImplicitCadet(uuid, k) ==
    [name |-> DefaultName(uuid), rank |-> RankTitle(k), rank_level |-> k,
     xp |-> 10 + (1010 * k), mission_stage |-> 1 + k, current_location |-> "Bridge"]

\* Variant: no sentinel test, and the ship state written in any case
init_db_ResetsShip(s) ==
    [s EXCEPT !.tables = BootTables, !.ship = DefaultShip]

\* init_db: nothing when max_rank_level exists; else the tables, and the
\* default ship state when ship:systems does not exist
init_db(s) ==
    IF Exists(s.tables)
    THEN s
    ELSE [s EXCEPT !.tables = BootTables,
                   !.ship = IF Exists(s.ship) THEN s.ship ELSE DefaultShip]

\* Server processes that share one Redis server, each inside at most one
\* update_leaderboard call
Writers == {"w1", "w2"}

\* No call in progress
IdleAward ==
    [pc |-> "idle", uuid |-> "", xp_to_add |-> 0, main |-> FALSE, new_xp |-> 0]

\* The WebSockets a run sees, and the user each one's client sends as
Sessions == {"s1", "s2"}
SessionUser == [s1 |-> "u1", s2 |-> "u2"]

\* A WebSocket not yet accepted
NoSession == [transport |-> "none", handler |-> "none", received |-> <<>>]

\* Who calls broadcast_state_change: a WebSocket's handler, or the
\* radiation_leak_simulator task
Casters == Sessions \cup {"simulator"}

\* No broadcast in progress
IdleCast == [pc |-> "idle", i |-> 0, message |-> <<>>]

\* Display names sent by clients
Names == {"Pike"}

\* A Redis store outlives the process (init_db returns at once when it finds
\* max_rank_level): a run starts from an empty store or from profiles that
\* earlier runs left behind.  A MockRedis starts empty.
PersistedProfiles(b, uuid) ==
    IF b = "redis" /\ uuid = "u1"
    THEN {<<>>} \cup {Registered(n, 3) : n \in Names} \cup {ImplicitCadet(uuid, 4)}
    ELSE {<<>>}

NoLast == [op |-> "start", uid |-> "", text |-> NoText, path |-> "", res |-> Pending]
NoProbe == [fn |-> "none"]
OneUser == [fn |-> "one_user"]
FastPath == [fn |-> "fast_path"]
TTL == [fn |-> "ttl"]
Boot == [fn |-> "init_db"]
Awards == [fn |-> "update_leaderboard"]
Cast == [fn |-> "broadcast"]
Gates == [fn |-> "gates"]
Promo == [fn |-> "promote_user"]
Cache == [fn |-> "sem_cache"]

Init ==
    /\ ship = DefaultShip
    /\ backend \in Backends
    /\ users \in {f \in [UserIds -> UNION {PersistedProfiles(backend, u) : u \in UserIds}] :
                    \A u \in UserIds : f[u] \in PersistedProfiles(backend, u)}
    /\ leaderboard = [u \in {v \in UserIds : Exists(users[v])} |-> users[u].xp]
    /\ auth = <<>>
    /\ cache = <<>>
    /\ tables = BootTables
    /\ awards = [w \in Writers |-> IdleAward]
    /\ conns = <<>>
    /\ sessions = [c \in Sessions |-> NoSession]
    /\ casts = [b \in Casters |-> IdleCast]
    /\ reqs = [q \in ReqIds |-> Idle]
    /\ last = NoLast
    /\ nops = 0
    /\ probe = NoProbe

----------------------------------------------------------------------------
(* Actions *)

Commit(s) ==
    /\ ship' = s.ship
    /\ users' = s.users
    /\ leaderboard' = s.leaderboard
    /\ auth' = s.auth
    /\ cache' = s.cache
    /\ backend' = backend
    /\ tables' = s.tables

\* The number of handler steps a run explores
Budget ==
    CASE probe = OneUser -> MaxOneUserOps
      [] probe = FastPath -> MaxFastPathOps
      [] probe = TTL -> MaxTTLOps
      [] probe = Boot -> MaxBootOps
      [] probe = Awards -> MaxAwards
      [] probe = Cast -> MaxCastOps
      [] probe = Gates -> MaxGateOps
      [] probe = Promo -> MaxPromoOps
      [] probe = Cache -> MaxCacheOps
      [] OTHER -> MaxOps

Step(op, uid, text, path, res) ==
    /\ nops < Budget
    /\ nops' = nops + 1
    /\ last' = [op |-> op, uid |-> uid, text |-> text, path |-> path, res |-> res]
    /\ probe' = probe
    /\ casts' = casts
    /\ sessions' = sessions
    /\ conns' = conns
    /\ awards' = awards

\* process_command_logic(req), up to its first return or to the model call
Command(q, user_id, text) ==
    /\ reqs[q].pc = "idle"
    /\ \A p \in ReqIds : p < q => reqs[p].pc # "idle"   \* the lowest free slot
    /\ \E o \in CommandStep(Store, text, user_id) :
          /\ Commit(o.s)
          /\ Step("command", user_id, text, o.path, o.res)
          /\ reqs' = IF o.path = "await_llm"
                     THEN [reqs EXCEPT ![q] = [pc |-> "llm", uid |-> user_id,
                                               text |-> text, key |-> o.key]]
                     ELSE reqs

\* process_command_logic(req), from the model call's completion to its return
LLMReturn(q, outcome) ==
    /\ reqs[q].pc = "llm"
    /\ LET o == ReturnStep(Store, reqs[q].uid, reqs[q].key, outcome)
       IN /\ Commit(o.s)
          /\ Step("llm_return", reqs[q].uid, reqs[q].text, o.path, o.res)
    /\ reqs' = [reqs EXCEPT ![q] = Idle]

\* Mutant: the profile is written without the exists() test
register_Overwrites(s, user_id, name) ==
    update_leaderboard_main(
        [s EXCEPT !.users[user_id] =
            HSet(s.users[user_id],
                 [name |-> name, rank |-> "Ensign", rank_level |-> 1,
                  xp |-> 0, mission_stage |-> 1, current_location |-> "Bridge"])],
        user_id, 1)

\* main.py lines 512-515: the store writes of a register message
register(s, user_id, name) ==
    IF ~Exists(s.users[user_id])
    THEN update_leaderboard_main(
            [s EXCEPT !.users[user_id] =
                HSet(s.users[user_id],
                     [name |-> name, rank |-> "Ensign", rank_level |-> 1,
                      xp |-> 0, mission_stage |-> 1, current_location |-> "Bridge"])],
            user_id, 1)
    ELSE s

\* websocket_endpoint, msg_type == "register"
Register(user_id, name) ==
    /\ LET s == Store
           s1 == register(s, user_id, name)
       IN /\ Commit(s1)
          /\ Step("register", user_id, NoText,
                  IF Exists(s.users[user_id]) THEN "exists" ELSE "created",
                  [updates |-> NoUpdates, response |-> "Ensign"])
    /\ UNCHANGED reqs

\* base64.b64decode(token).decode('utf-8'): the decoded text, or an exception
Tokens == {[ok |-> TRUE, text |-> "Engineering"], [ok |-> TRUE, text |-> "McDonalds"], [ok |-> FALSE, text |-> ""]}

\* Variant: every decoded value is taken for a location
ValidLocation_Any(loc) == TRUE

ValidLocation(loc) == \E i \in DOMAIN VALID_LOCATIONS : VALID_LOCATIONS[i] = loc

\* websocket_endpoint, msg_type == "location_update"
LocationUpdate(user_id, token) ==
    /\ LET s == Store
           accepted == token.ok /\ ValidLocation(token.text)
           s1 == IF accepted
                 THEN [s EXCEPT !.users[user_id] =
                          HSet(s.users[user_id], [current_location |-> token.text])]
                 ELSE s
       IN /\ Commit(s1)
          /\ Step("location_update", user_id, NoText,
                  IF accepted THEN "success" ELSE "error",
                  [updates |-> NoUpdates,
                   response |-> IF accepted THEN "success"
                                ELSE IF token.ok THEN "Invalid location token."
                                ELSE "Invalid token format."])
    /\ UNCHANGED reqs

\* websocket_endpoint, msg_type == "radiation_cleared"
RadiationCleared(user_id) ==
    /\ LET s == Store
           s1 == [s EXCEPT !.ship = HSet(s.ship, [radiation_leak |-> 0])]
       IN Commit(update_leaderboard_main(s1, user_id, 25))
    /\ Step("radiation_cleared", user_id, NoText, "cleared", Pending)
    /\ UNCHANGED reqs

\* trigger_radiation_leak(): the simulator's tick or the admin trigger
TriggerRadiationLeak ==
    /\ LET s == Store
           fires == HGetInt(s.ship, "radiation_leak") = 0
       IN /\ Commit(IF fires THEN [s EXCEPT !.ship = HSet(s.ship, [radiation_leak |-> 1])]
                    ELSE s)
          /\ Step("trigger_radiation_leak", "", NoText,
                  IF fires THEN "triggered" ELSE "ignored", Pending)
    /\ UNCHANGED reqs

\* clear_radiation_leak(): the admin trigger
ClearRadiationLeak ==
    /\ LET s == Store
           fires == HGetInt(s.ship, "radiation_leak") = 1
       IN /\ Commit(IF fires THEN [s EXCEPT !.ship = HSet(s.ship, [radiation_leak |-> 0])]
                    ELSE s)
          /\ Step("clear_radiation_leak", "", NoText,
                  IF fires THEN "cleared" ELSE "ignored", Pending)
    /\ UNCHANGED reqs

Next ==
    \/ \E q \in ReqIds, u \in UserIds, t \in Texts : Command(q, u, t)
    \/ \E q \in ReqIds, o \in LLMOutcomes : LLMReturn(q, o)
    \/ \E u \in UserIds, n \in Names : Register(u, n)
    \/ \E u \in UserIds, k \in Tokens : LocationUpdate(u, k)
    \/ \E u \in UserIds : RadiationCleared(u)
    \/ TriggerRadiationLeak
    \/ ClearRadiationLeak

Spec == Init /\ [][Next]_vars

----------------------------------------------------------------------------
(* One user's commands and registrations, followed further: several of the
   user's commands wait for the model at once and complete in any order *)

OneUserTexts == {
    Txt(<<"analyze", "anomaly">>, FALSE, FALSE),
    Txt(<<"analyze", "anomaly">>, TRUE, TRUE),
    Txt(<<"status", "report">>, FALSE, FALSE) }

\* The profiles of the acting user: those above and one at the highest rank
OneUserProfiles(b) ==
    PersistedProfiles(b, "u1")
        \cup (IF b = "redis" THEN {Registered(n, 4) : n \in Names} ELSE {})

InitOneUser ==
    /\ ship = DefaultShip
    /\ backend \in Backends
    /\ users \in {f \in [UserIds -> OneUserProfiles(backend)] :
                    \A u \in UserIds : u # "u1" => f[u] = <<>>}
    /\ leaderboard = [u \in {v \in UserIds : Exists(users[v])} |-> users[u].xp]
    /\ auth = <<>>
    /\ cache = <<>>
    /\ tables = BootTables
    /\ awards = [w \in Writers |-> IdleAward]
    /\ conns = <<>>
    /\ sessions = [c \in Sessions |-> NoSession]
    /\ casts = [b \in Casters |-> IdleCast]
    /\ reqs = [q \in ReqIds |-> Idle]
    /\ last = NoLast
    /\ nops = 0
    /\ probe = OneUser

NextOneUser ==
    \/ \E q \in ReqIds, t \in OneUserTexts : Command(q, "u1", t)
    \/ \E q \in ReqIds, o \in LLMOutcomes : LLMReturn(q, o)
    \/ \E n \in Names : Register("u1", n)

SpecOneUser == InitOneUser /\ [][NextOneUser]_vars

----------------------------------------------------------------------------
(* The fast path followed on its own: two users, the texts that the rules
   of process_turbo_mode are asked about, model replies without updates *)

FastPathTexts == {
    Txt(<<"shields", "up">>, FALSE, FALSE),
    Txt(<<"joshua", "status">>, FALSE, FALSE),
    Txt(<<"initiate", "auth">>, FALSE, FALSE),
    Txt(<<"authorize", "session", "1234">>, FALSE, FALSE) }

\* The model call fails, or replies without updates
PlainOutcomes ==
    {[kind |-> "timeout"],
     [kind |-> "ok", data |-> [updates |-> NoUpdates, response |-> "Acknowledged."]]}

\* A ship state that earlier commands left on the Redis server
ArmedShip == [DefaultShip EXCEPT !.phasers = 75]

InitFastPath ==
    /\ backend \in Backends
    /\ ship \in IF backend = "redis" THEN {DefaultShip, ArmedShip} ELSE {DefaultShip}
    /\ users \in {f \in [UserIds -> UNION {PersistedProfiles(backend, u) : u \in UserIds}] :
                    \A u \in UserIds : f[u] \in PersistedProfiles(backend, u)}
    /\ leaderboard = [u \in {v \in UserIds : Exists(users[v])} |-> users[u].xp]
    /\ auth = <<>>
    /\ cache = <<>>
    /\ tables = BootTables
    /\ awards = [w \in Writers |-> IdleAward]
    /\ conns = <<>>
    /\ sessions = [c \in Sessions |-> NoSession]
    /\ casts = [b \in Casters |-> IdleCast]
    /\ reqs = [q \in ReqIds |-> Idle]
    /\ last = NoLast
    /\ nops = 0
    /\ probe = FastPath

NextFastPath ==
    \/ \E q \in ReqIds, u \in UserIds, t \in FastPathTexts : Command(q, u, t)
    \/ \E q \in ReqIds, o \in PlainOutcomes : LLMReturn(q, o)

SpecFastPath == InitFastPath /\ [][NextFastPath]_vars

----------------------------------------------------------------------------
(* Expiry of the keys written with ex=300: one user's sessions and cache
   entries, and the passing of more than 300 seconds *)

TTLTexts == {
    Txt(<<"analyze", "anomaly">>, FALSE, FALSE),
    Txt(<<"initiate", "auth">>, FALSE, FALSE),
    Txt(<<"authorize", "session", "1234">>, FALSE, FALSE) }

\* More than 300 s pass.  Redis drops every key whose TTL has run out, here
\* every auth_session and sem_cache key written so far; MockRedis.set takes
\* `ex` and ignores it, so its keys stay.
TTLElapses ==
    /\ LET s == Store
       IN Commit(IF s.backend = "redis"
                 THEN [s EXCEPT !.auth = <<>>, !.cache = <<>>]
                 ELSE s)
    /\ Step("ttl_elapsed", "", NoText, "elapsed", Pending)
    /\ UNCHANGED reqs

InitTTL ==
    /\ ship = DefaultShip
    /\ backend \in Backends
    /\ users \in {f \in [UserIds -> OneUserProfiles(backend)] :
                    \A u \in UserIds : u # "u1" => f[u] = <<>>}
    /\ leaderboard = [u \in {v \in UserIds : Exists(users[v])} |-> users[u].xp]
    /\ auth = <<>>
    /\ cache = <<>>
    /\ tables = BootTables
    /\ awards = [w \in Writers |-> IdleAward]
    /\ conns = <<>>
    /\ sessions = [c \in Sessions |-> NoSession]
    /\ casts = [b \in Casters |-> IdleCast]
    /\ reqs = [q \in ReqIds |-> Idle]
    /\ last = NoLast
    /\ nops = 0
    /\ probe = TTL

NextTTL ==
    \/ \E q \in ReqIds, t \in TTLTexts : Command(q, "u1", t)
    \/ \E q \in ReqIds, o \in PlainOutcomes : LLMReturn(q, o)
    \/ TTLElapses

SpecTTL == InitTTL /\ [][NextTTL]_vars

----------------------------------------------------------------------------
(* init_db: the store the process finds when it starts, the bootstrap, the
   commands served after it, and init_db called again *)

\* A ship state that earlier commands left behind
UsedShip == [DefaultShip EXCEPT !.shields = 40, !.warp = 5]

BootTexts == {
    Txt(<<"analyze", "anomaly">>, FALSE, FALSE),
    Txt(<<"status", "report">>, FALSE, FALSE) }

\* The model call fails, or replies without updates or with updates
BootOutcomes ==
    PlainOutcomes \cup
    {[kind |-> "ok", data |-> [updates |-> [phasers |-> JInt(75)],
                               response |-> "Well done.", mission_success |-> JBool(TRUE)]]}

\* init_db()
InitDb ==
    /\ Commit(init_db(Store))
    /\ Step("init_db", "", NoText,
            IF Exists(tables) THEN "skipped" ELSE "first_run", Pending)
    /\ UNCHANGED reqs

\* The store at process start: empty (a MockRedis always is), or what an
\* earlier run left on the Redis server
InitBoot ==
    /\ backend \in Backends
    /\ \/ /\ tables = NoTables
          /\ ship = <<>>
          /\ users = [u \in UserIds |-> <<>>]
       \/ /\ backend = "redis"
          /\ tables = BootTables
          /\ ship \in {DefaultShip, UsedShip}
          /\ users \in {f \in [UserIds -> PersistedProfiles(backend, "u1")] :
                          \A u \in UserIds : u # "u1" => f[u] = <<>>}
    /\ leaderboard = [u \in {v \in UserIds : Exists(users[v])} |-> users[u].xp]
    /\ auth = <<>>
    /\ cache = <<>>
    /\ awards = [w \in Writers |-> IdleAward]
    /\ conns = <<>>
    /\ sessions = [c \in Sessions |-> NoSession]
    /\ casts = [b \in Casters |-> IdleCast]
    /\ reqs = [q \in ReqIds |-> Idle]
    /\ last = NoLast
    /\ nops = 0
    /\ probe = Boot

\* init_db() runs when the module is loaded, before any message is served
NextBoot ==
    \/ InitDb
    \/ /\ Exists(tables)
       /\ \E q \in ReqIds, t \in BootTexts : Command(q, "u1", t)
    \/ \E q \in ReqIds, o \in BootOutcomes : LLMReturn(q, o)

SpecBoot == InitBoot /\ [][NextBoot]_vars

----------------------------------------------------------------------------
(* update_leaderboard followed one store operation at a time, for calls made
   by server processes that share one Redis server (each process runs its
   own calls one after the other; a MockRedis is never shared).  nops counts
   the calls begun. *)

\* The awards the handlers make: 10 for a result with updates, 50 for an
\* authorization, 100 for a mission
Amounts == {10, 50}

\* What every operation of a call leaves alone
AwardFrame(w, a) ==
    /\ awards' = [awards EXCEPT ![w] = a]
    /\ last' = [op |-> "award", uid |-> a.uuid, text |-> NoText,
                path |-> awards[w].pc, res |-> Pending]
    /\ probe' = probe
    /\ UNCHANGED <<ship, auth, cache, backend, tables, conns, sessions, casts, reqs>>

\* update_leaderboard(uuid, xp_to_add) is entered: database.py's, or main.py's
AwardBegin(w, uuid, xp_to_add, main) ==
    /\ awards[w].pc = "idle"
    /\ nops < Budget
    /\ nops' = nops + 1
    /\ AwardFrame(w, [pc |-> IF main THEN "hincrby" ELSE "exists", uuid |-> uuid,
                      xp_to_add |-> xp_to_add, main |-> main, new_xp |-> 0])
    /\ UNCHANGED <<users, leaderboard>>

\* database.py line 138: not r.exists(user_key), `or` evaluates no further
\* when it is true
AwardExists(w) ==
    /\ awards[w].pc = "exists"
    /\ AwardFrame(w, [awards[w] EXCEPT !.pc = IF Exists(users[awards[w].uuid])
                                              THEN "hexists" ELSE "hset"])
    /\ UNCHANGED <<users, leaderboard, nops>>

\* database.py line 138: not r.hexists(user_key, "name")
AwardHExists(w) ==
    /\ awards[w].pc = "hexists"
    /\ AwardFrame(w, [awards[w] EXCEPT !.pc = IF HExists(users[awards[w].uuid], "name")
                                              THEN "hincrby" ELSE "hset"])
    /\ UNCHANGED <<users, leaderboard, nops>>

\* database.py lines 139-145: r.hset(user_key, mapping={...})
AwardHSet(w) ==
    /\ awards[w].pc = "hset"
    /\ users' = [users EXCEPT ![awards[w].uuid] =
                    HSet(@, [name |-> DefaultName(awards[w].uuid), rank |-> "Cadet",
                             rank_level |-> 0, mission_stage |-> 1,
                             current_location |-> "Bridge"])]
    /\ AwardFrame(w, [awards[w] EXCEPT !.pc = "hincrby"])
    /\ UNCHANGED <<leaderboard, nops>>

\* new_xp = r.hincrby(user_key, "xp", xp_to_add)
AwardHIncrBy(w) ==
    /\ awards[w].pc = "hincrby"
    /\ LET h == HIncrBy(users[awards[w].uuid], "xp", awards[w].xp_to_add)
       IN /\ users' = [users EXCEPT ![awards[w].uuid] = h]
          /\ AwardFrame(w, [awards[w] EXCEPT !.pc = "zadd", !.new_xp = h.xp])
    /\ UNCHANGED <<leaderboard, nops>>

\* r.zadd("leaderboard", {uuid: new_xp})
AwardZAdd(w) ==
    /\ awards[w].pc = "zadd"
    /\ leaderboard' = SetKey(leaderboard, awards[w].uuid, awards[w].new_xp)
    /\ AwardFrame(w, IdleAward)
    /\ UNCHANGED <<users, nops>>

InitAwards ==
    /\ ship = DefaultShip
    /\ backend = "redis"
    /\ users \in {f \in [UserIds -> UNION {PersistedProfiles(backend, u) : u \in UserIds}] :
                    \A u \in UserIds : f[u] \in PersistedProfiles(backend, u)}
    /\ leaderboard = [u \in {v \in UserIds : Exists(users[v])} |-> users[u].xp]
    /\ auth = <<>>
    /\ cache = <<>>
    /\ tables = BootTables
    /\ awards = [w \in Writers |-> IdleAward]
    /\ conns = <<>>
    /\ sessions = [c \in Sessions |-> NoSession]
    /\ casts = [b \in Casters |-> IdleCast]
    /\ reqs = [q \in ReqIds |-> Idle]
    /\ last = NoLast
    /\ nops = 0
    /\ probe = Awards

NextAwards ==
    \/ \E w \in Writers, u \in UserIds, x \in Amounts, m \in BOOLEAN : AwardBegin(w, u, x, m)
    \/ \E w \in Writers : AwardExists(w)
    \/ \E w \in Writers : AwardHExists(w)
    \/ \E w \in Writers : AwardHSet(w)
    \/ \E w \in Writers : AwardHIncrBy(w)
    \/ \E w \in Writers : AwardZAdd(w)

SpecAwards == InitAwards /\ [][NextAwards]_vars

----------------------------------------------------------------------------
(* main.py: ConnectionManager, the WebSocket handlers that broadcast and the
   radiation_leak_simulator task.  manager.broadcast awaits each send_text,
   so a broadcast is one step per connection and other handlers run in
   between. *)

\* What every step of this part leaves alone, and its record in `last`
CastStep(op, uid, path) ==
    /\ nops < Budget
    /\ nops' = nops + 1
    /\ last' = [op |-> op, uid |-> uid, text |-> NoText, path |-> path, res |-> Pending]
    /\ probe' = probe
    /\ awards' = awards
    /\ UNCHANGED reqs

\* active_connections.remove(websocket)
Remove(list, c) == SelectSeq(list, LAMBDA x : x # c)

\* manager.broadcast(message) up to its first send_text: the loop takes the
\* first connection of the list, or ends at once on an empty list
BeginBroadcast(list, message) ==
    IF Len(list) = 0
    THEN IdleCast
    ELSE [pc |-> "sending", i |-> 1, to |-> list[1], message |-> message]

\* websocket_endpoint up to the receive loop: manager.connect(websocket)
Connect(c) ==
    /\ sessions[c].handler = "none"
    /\ sessions' = [sessions EXCEPT ![c] =
                       [transport |-> "open", handler |-> "receive", received |-> <<>>]]
    /\ conns' = Append(conns, c)
    /\ casts' = casts
    /\ Commit(Store)
    /\ CastStep("connect", c, "accepted")

\* The client goes away or the network drops: from now on a send raises
TransportFails(c) ==
    /\ sessions[c].transport = "open"
    /\ sessions' = [sessions EXCEPT ![c].transport = "failed"]
    /\ UNCHANGED <<conns, casts>>
    /\ Commit(Store)
    /\ CastStep("transport_fails", c, "failed")

\* websocket_endpoint: receive_text raises WebSocketDisconnect, lines 547-549
HandlerDisconnects(c) ==
    /\ sessions[c].handler = "receive"
    /\ sessions[c].transport = "failed"
    /\ sessions' = [sessions EXCEPT ![c].handler = "ended"]
    /\ conns' = Remove(conns, c)
    /\ casts' = casts
    /\ Commit(Store)
    /\ CastStep("disconnect", c, "WebSocketDisconnect")

\* websocket_endpoint, msg_type == "radiation_cleared", lines 540-545, up to
\* the first send of broadcast_state_change
RadiationClearedWS(c) ==
    /\ sessions[c].handler = "receive"
    /\ sessions[c].transport = "open"
    /\ LET s == Store
           s1 == [s EXCEPT !.ship = HSet(s.ship, [radiation_leak |-> 0])]
           s2 == update_leaderboard_main(s1, SessionUser[c], 25)
       IN /\ Commit(s2)
          /\ casts' = [casts EXCEPT ![c] = BeginBroadcast(conns, s2.ship)]
    /\ sessions' = [sessions EXCEPT ![c].handler = "broadcast"]
    /\ conns' = conns
    /\ CastStep("radiation_cleared", c, "cleared")

\* radiation_leak_simulator: a tick that triggers the leak, up to the first
\* send of broadcast_state_change
SimulatorTick ==
    /\ casts["simulator"].pc = "idle"
    /\ HGetInt(ship, "radiation_leak") = 0
    /\ LET s == Store
           s1 == [s EXCEPT !.ship = HSet(s.ship, [radiation_leak |-> 1])]
       IN /\ Commit(s1)
          /\ casts' = [casts EXCEPT !["simulator"] = BeginBroadcast(conns, s1.ship)]
    /\ UNCHANGED <<conns, sessions>>
    /\ CastStep("trigger_radiation_leak", "simulator", "triggered")

\* manager.broadcast, line 47: `await connection.send_text(message)` returns
\* or raises, and the code up to the next await runs.  After a send that
\* returned, the loop goes on to the next index of the list as it is now,
\* or ends; a handler is then back in its receive loop.  Nothing catches a
\* send that raised before the handler's `except Exception` (lines 550-552),
\* which disconnects the handler's own socket; in the simulator nothing
\* catches it at all and the task ends.
Send(b) ==
    /\ casts[b].pc = "sending"
    /\ LET to == casts[b].to
           i == casts[b].i + 1
           more == i <= Len(conns)
       IN IF sessions[to].transport = "open"
          THEN /\ casts' = [casts EXCEPT ![b] =
                              IF more THEN [@ EXCEPT !.i = i, !.to = conns[i]]
                              ELSE IdleCast]
               /\ sessions' = [c \in Sessions |->
                     [sessions[c] EXCEPT
                        !.received = IF c = to THEN Append(@, casts[b].message) ELSE @,
                        !.handler = IF c = b /\ ~more THEN "receive" ELSE @]]
               /\ conns' = conns
               /\ CastStep("send", b, "delivered")
          ELSE /\ casts' = [casts EXCEPT ![b] =
                              IF b = "simulator" THEN [IdleCast EXCEPT !.pc = "dead"]
                              ELSE IdleCast]
               /\ sessions' = [c \in Sessions |->
                     IF c = b
                     THEN [sessions[c] EXCEPT !.handler = "ended", !.transport = "failed"]
                     ELSE sessions[c]]
               /\ conns' = Remove(conns, b)
               /\ CastStep("send", b, "raised")
    /\ Commit(Store)

\* What a client can send that is not a well-formed message: text that is
\* not JSON, or a command, register or radiation_cleared envelope without a
\* required field
Malformed == {"not_json", "missing_field"}

\* websocket_endpoint: json.loads(req_data) raises JSONDecodeError (line
\* 500), or CommandRequest(**req), UserRegister(**req), RadiationCleared(**req)
\* raises ValidationError (lines 504, 511, 541).  Nothing in the loop catches
\* either: `except Exception` (lines 550-552) logs, removes the socket from
\* the manager and the handler returns, which closes the connection.
\* Nothing is sent.
MalformedMessage(c, kind) ==
    /\ sessions[c].handler = "receive"
    /\ sessions[c].transport = "open"
    /\ sessions' = [sessions EXCEPT ![c].handler = "ended", ![c].transport = "failed"]
    /\ conns' = Remove(conns, c)
    /\ casts' = casts
    /\ Commit(Store)
    /\ CastStep("malformed", c, kind)

InitBroadcast ==
    /\ ship = DefaultShip
    /\ backend \in Backends
    /\ users = [u \in UserIds |-> <<>>]
    /\ leaderboard = <<>>
    /\ auth = <<>>
    /\ cache = <<>>
    /\ tables = BootTables
    /\ awards = [w \in Writers |-> IdleAward]
    /\ conns = <<>>
    /\ sessions = [c \in Sessions |-> NoSession]
    /\ casts = [b \in Casters |-> IdleCast]
    /\ reqs = [q \in ReqIds |-> Idle]
    /\ last = NoLast
    /\ nops = 0
    /\ probe = Cast

NextBroadcast ==
    \/ \E c \in Sessions : Connect(c)
    \/ \E c \in Sessions : TransportFails(c)
    \/ \E c \in Sessions : HandlerDisconnects(c)
    \/ \E c \in Sessions : RadiationClearedWS(c)
    \/ SimulatorTick
    \/ \E b \in Casters : Send(b)
    \/ \E c \in Sessions, kind \in Malformed : MalformedMessage(c, kind)

SpecBroadcast == InitBroadcast /\ [][NextBroadcast]_vars

----------------------------------------------------------------------------
(* server/game_logic.py lines 256-282: from the model's raw output to `data`.
   The output is a sequence of lexemes: braces, commas, whole JSON members,
   words, code-fence markers and line breaks. *)

LB == "{"
RB == "}"
COMMA == ","
KR == "\"response\": \"Hi\""     \* a member with a string value
KM == "\"shields\": 50"          \* a member with a number value
KU == "\"updates\":"             \* a key whose value is the object that follows
W == "word"
FJ == "fence json"     \* the marker that opens a json code block
F == "fence"           \* the bare code-fence marker
SP == "\n"

Lexemes == {LB, RB, COMMA, KR, KM, KU, W, FJ, F, SP}

\* The regular-expression search of line 259: from the first "{" to the
\* last "}" when the first comes before the last, else no match
FirstLB(raw) ==
    IF \E i \in DOMAIN raw : raw[i] = LB
    THEN CHOOSE i \in DOMAIN raw : raw[i] = LB /\ \A j \in 1..(i - 1) : raw[j] # LB
    ELSE 0

LastRB(raw) ==
    IF \E i \in DOMAIN raw : raw[i] = RB
    THEN CHOOSE i \in DOMAIN raw : raw[i] = RB /\ \A j \in (i + 1)..Len(raw) : raw[j] # RB
    ELSE 0

HasSpan(raw) == FirstLB(raw) # 0 /\ FirstLB(raw) < LastRB(raw)

Span(raw) == IF HasSpan(raw) THEN SubSeq(raw, FirstLB(raw), LastRB(raw)) ELSE <<>>

\* json.loads on an object, by recursive descent over the lexemes; a key
\* given twice keeps its last value
ParseFails == [ok |-> FALSE, val |-> <<>>, next |-> 0]

RECURSIVE ParseObject(_, _)
RECURSIVE ParseMembers(_, _, _)

ParseObject(seq, i) ==
    IF i > Len(seq) \/ seq[i] # LB THEN ParseFails
    ELSE IF i + 1 <= Len(seq) /\ seq[i + 1] = RB
    THEN [ok |-> TRUE, val |-> <<>>, next |-> i + 2]
    ELSE ParseMembers(seq, i + 1, <<>>)

ParseMembers(seq, i, acc) ==
    IF i > Len(seq) THEN ParseFails
    ELSE LET m == CASE seq[i] = KR ->
                         [ok |-> TRUE, key |-> "response", val |-> <<"Hi">>, next |-> i + 1]
                    [] seq[i] = KM ->
                         [ok |-> TRUE, key |-> "shields", val |-> JInt(50), next |-> i + 1]
                    [] seq[i] = KU ->
                         LET o == ParseObject(seq, i + 1)
                         IN [ok |-> o.ok, key |-> "updates", val |-> o.val, next |-> o.next]
                    [] OTHER ->
                         [ok |-> FALSE, key |-> "", val |-> <<>>, next |-> i]
         IN IF ~m.ok \/ m.next > Len(seq) THEN ParseFails
            ELSE IF seq[m.next] = RB
            THEN [ok |-> TRUE, val |-> HSet(acc, (m.key :> m.val)), next |-> m.next + 1]
            ELSE IF seq[m.next] = COMMA
            THEN ParseMembers(seq, m.next + 1, HSet(acc, (m.key :> m.val)))
            ELSE ParseFails

\* json.loads(match.group(0)): white space between lexemes is skipped, and
\* nothing may follow the object
json_loads(span) ==
    LET s == SelectSeq(span, LAMBDA x : x # SP)
        o == ParseObject(s, 1)
    IN IF o.ok /\ o.next = Len(s) + 1
       THEN [ok |-> TRUE, val |-> o.val]
       ELSE [ok |-> FALSE, val |-> <<>>]

\* str.strip()
StripBlanks(seq) ==
    IF \A i \in DOMAIN seq : seq[i] = SP THEN <<>>
    ELSE LET a == CHOOSE i \in DOMAIN seq : seq[i] # SP /\ \A j \in 1..(i - 1) : seq[j] = SP
             b == CHOOSE i \in DOMAIN seq :
                     seq[i] # SP /\ \A j \in (i + 1)..Len(seq) : seq[j] = SP
         IN SubSeq(seq, a, b)

\* Line 266: both fence markers are replaced by nothing, then str.strip()
clean_text(raw) ==
    StripBlanks(SelectSeq(SelectSeq(raw, LAMBDA x : x # FJ), LAMBDA x : x # F))

ProcessingComplete == <<"Processing complete.">>

\* Variant: a span that does not parse is reported as a data format error
parse_model_output_NoFallback(raw) ==
    LET j == json_loads(Span(raw))
    IN IF HasSpan(raw) /\ ~j.ok
       THEN [raised |-> TRUE,
             data |-> [updates |-> NoUpdates, response |-> <<CorruptionResponse>>]]
       ELSE [raised |-> FALSE,
             data |-> IF HasSpan(raw) THEN j.val
                      ELSE [updates |-> NoUpdates, response |-> clean_text(raw)]]

\* Lines 259-282: `data` for the raw output, and whether an exception left
\* the block
parse_model_output(raw) ==
    LET j == json_loads(Span(raw))
        data0 == IF HasSpan(raw) /\ j.ok THEN j.val
                 ELSE [updates |-> NoUpdates, response |-> clean_text(raw)]
        data1 == IF "response" \in DOMAIN data0 THEN data0
                 ELSE HSet(data0, [response |-> ProcessingComplete])
        data2 == IF "updates" \in DOMAIN data1 THEN data1
                 ELSE HSet(data1, [updates |-> NoUpdates])
    IN [raised |-> FALSE, data |-> data2]

\* Raw outputs: every sequence of up to MaxRawLen lexemes, and the longer
\* ones of the kinds models produce
LongOutputs == {
    <<LB, KU, LB, RB, COMMA, KR, RB>>,
    <<LB, KU, LB, KM, RB, COMMA, KR, RB>>,
    <<FJ, SP, LB, KU, LB, RB, COMMA, KR, RB, SP, F>>,
    <<W, SP, LB, KU, LB, RB, COMMA, KR, RB, SP, W>>,
    <<LB, KU, LB, RB, COMMA, KR>>,
    <<LB, KU, LB, KM, RB, RB>>,
    <<LB, KR, RB, W, LB, KR, RB>>,
    <<FJ, SP, W, W, SP, F, SP>> }

RawOutputs == UNION {[1..n -> Lexemes] : n \in 0..MaxRawLen} \cup LongOutputs

InitParse ==
    /\ ship = DefaultShip
    /\ backend = "redis"
    /\ users = [u \in UserIds |-> <<>>]
    /\ leaderboard = <<>>
    /\ auth = <<>>
    /\ cache = <<>>
    /\ tables = BootTables
    /\ awards = [w \in Writers |-> IdleAward]
    /\ conns = <<>>
    /\ sessions = [c \in Sessions |-> NoSession]
    /\ casts = [b \in Casters |-> IdleCast]
    /\ reqs = [q \in ReqIds |-> Idle]
    /\ last = NoLast
    /\ nops = 0
    /\ probe \in {[fn |-> "parse_model_output", done |-> FALSE, raw |-> raw, out |-> <<>>] :
                     raw \in RawOutputs}

ComputeParse ==
    /\ probe.fn = "parse_model_output"
    /\ ~probe.done
    /\ probe' = [probe EXCEPT !.done = TRUE, !.out = parse_model_output(probe.raw)]
    /\ UNCHANGED <<ship, users, leaderboard, auth, cache, backend, tables, awards,
                   conns, sessions, casts, reqs, last, nops>>

NextParse == ComputeParse

SpecParse == InitParse /\ [][NextParse]_vars

----------------------------------------------------------------------------
(* server/game_logic.py: get_mock_llm_response on its own.  The text is the
   lower-cased command as a sequence of words; the ship state is read for the
   damage report; random.choice is a choice among the five generic
   responses. *)

MockWords == {"damage", "report", "scanner", "beam", "transport", "loki", "hello"}

\* The keywords of lines 83-90 that are substrings of a word
KeywordsIn(word) == IF word = "scanner" THEN {"scan"} ELSE {word}

\* `keyword in text`
InText(keyword, text) == \E i \in DOMAIN text : keyword \in KeywordsIn(text[i])

GenericResponses ==
    {"Processing parameters.", "Working...",
     "Unable to comply with that specific request.",
     "Please restate the command.", "Input received."}

\* The results one call can return
get_mock_llm_response(s, text) ==
    IF InText("damage", text) \/ InText("report", text)
    THEN {[updates |-> NoUpdates,
           response |-> [text |-> "Damage report: Shields at", shields |-> s.ship.shields]]}
    ELSE IF InText("scan", text)
    THEN {[updates |-> NoUpdates,
           response |-> [text |-> "Sensors indicate no immediate threats in this sector."]]}
    ELSE IF InText("beam", text) \/ InText("transport", text)
    THEN {[updates |-> NoUpdates,
           response |-> [text |-> "Transporter room reports ready for transport."]]}
    ELSE IF InText("loki", text)
    THEN {[updates |-> NoUpdates,
           response |->
               [text |-> "Identity confirmed. Accessing restricted files... Access Denied."]]}
    ELSE {[updates |-> NoUpdates, response |-> [text |-> g]] : g \in GenericResponses}

MockTexts == UNION {[1..n -> MockWords] : n \in 0..MaxMockLen}

InitMock ==
    /\ backend \in Backends
    /\ ship \in {DefaultShip, [DefaultShip EXCEPT !.shields = 50]}
    /\ users = [u \in UserIds |-> <<>>]
    /\ leaderboard = <<>>
    /\ auth = <<>>
    /\ cache = <<>>
    /\ tables = BootTables
    /\ awards = [w \in Writers |-> IdleAward]
    /\ conns = <<>>
    /\ sessions = [c \in Sessions |-> NoSession]
    /\ casts = [b \in Casters |-> IdleCast]
    /\ reqs = [q \in ReqIds |-> Idle]
    /\ last = NoLast
    /\ nops = 0
    /\ probe \in {[fn |-> "get_mock_llm_response", text |-> t, outs |-> <<>>] :
                     t \in MockTexts}

\* One more call with the same text on the same ship state
MockInvoke ==
    /\ probe.fn = "get_mock_llm_response"
    /\ Len(probe.outs) < MaxMockCalls
    /\ \E o \in get_mock_llm_response(Store, probe.text) :
          probe' = [probe EXCEPT !.outs = Append(@, o)]
    /\ UNCHANGED <<ship, users, leaderboard, auth, cache, backend, tables, awards,
                   conns, sessions, casts, reqs, last, nops>>

NextMock == MockInvoke

SpecMock == InitMock /\ [][NextMock]_vars

----------------------------------------------------------------------------
(* The gates of process_command_logic, one after the other: texts that hold
   a restricted phrase, a fast-path pattern, or both, sent from the Bridge
   and from Engineering, with and without a leak. *)

GateTexts == {
    Txt(<<"initiate", "auth">>, FALSE, FALSE),
    Txt(<<"purge", "coolant">>, FALSE, FALSE),
    Txt(<<"purge", "coolant", "initiate", "auth">>, FALSE, FALSE),
    Txt(<<"quarantine", "authorize", "session", "1234">>, FALSE, FALSE),
    Txt(<<"computer">>, FALSE, FALSE),
    Txt(<<"computer", "purge", "coolant">>, FALSE, FALSE) }

GateTokens == {[ok |-> TRUE, text |-> "Engineering"]}

InitGates ==
    /\ ship = DefaultShip
    /\ backend \in Backends
    /\ users \in {f \in [UserIds -> UNION {PersistedProfiles(backend, u) : u \in UserIds}] :
                    \A u \in UserIds : f[u] \in PersistedProfiles(backend, u)}
    /\ leaderboard = [u \in {v \in UserIds : Exists(users[v])} |-> users[u].xp]
    /\ auth = <<>>
    /\ cache = <<>>
    /\ tables = BootTables
    /\ awards = [w \in Writers |-> IdleAward]
    /\ conns = <<>>
    /\ sessions = [c \in Sessions |-> NoSession]
    /\ casts = [b \in Casters |-> IdleCast]
    /\ reqs = [q \in ReqIds |-> Idle]
    /\ last = NoLast
    /\ nops = 0
    /\ probe = Gates

NextGates ==
    \/ \E q \in ReqIds, u \in UserIds, t \in GateTexts : Command(q, u, t)
    \/ \E q \in ReqIds, o \in PlainOutcomes : LLMReturn(q, o)
    \/ \E u \in UserIds, k \in GateTokens : LocationUpdate(u, k)
    \/ TriggerRadiationLeak

SpecGates == InitGates /\ [][NextGates]_vars

----------------------------------------------------------------------------
(* Promotion: every handler, and model results whose mission_success is
   true, false, the string "true", the number 1, or absent. *)

PromoTexts == {
    Txt(<<"analyze", "anomaly">>, FALSE, FALSE),
    Txt(<<"eject", "warp", "core">>, FALSE, FALSE),
    Txt(<<"status", "report">>, FALSE, FALSE) }

PromoOutcomes ==
    {[kind |-> "timeout"],
     [kind |-> "ok", data |-> [updates |-> NoUpdates, response |-> "Acknowledged."]]} \cup
    {[kind |-> "ok", data |-> [updates |-> [phasers |-> JInt(75)], response |-> "Well done.",
                               mission_success |-> v]] :
        v \in {JBool(TRUE), JBool(FALSE), JStr("true"), JInt(1)}}

InitPromo ==
    /\ ship = DefaultShip
    /\ backend \in Backends
    /\ users \in {f \in [UserIds -> UNION {PersistedProfiles(backend, u) : u \in UserIds}] :
                    \A u \in UserIds : f[u] \in PersistedProfiles(backend, u)}
    /\ leaderboard = [u \in {v \in UserIds : Exists(users[v])} |-> users[u].xp]
    /\ auth = <<>>
    /\ cache = <<>>
    /\ tables = BootTables
    /\ awards = [w \in Writers |-> IdleAward]
    /\ conns = <<>>
    /\ sessions = [c \in Sessions |-> NoSession]
    /\ casts = [b \in Casters |-> IdleCast]
    /\ reqs = [q \in ReqIds |-> Idle]
    /\ last = NoLast
    /\ nops = 0
    /\ probe = Promo

NextPromo ==
    \/ \E q \in ReqIds, u \in UserIds, t \in PromoTexts : Command(q, u, t)
    \/ \E q \in ReqIds, o \in PromoOutcomes : LLMReturn(q, o)
    \/ \E u \in UserIds, n \in Names : Register(u, n)
    \/ \E u \in UserIds, k \in Tokens : LocationUpdate(u, k)
    \/ \E u \in UserIds : RadiationCleared(u)
    \/ TriggerRadiationLeak

SpecPromo == InitPromo /\ [][NextPromo]_vars

----------------------------------------------------------------------------
(* The semantic cache: one text, model results of every kind, and a Redis
   server on which the entry of that text may hold a value that is not
   JSON. *)

CacheTexts == {Txt(<<"analyze", "anomaly">>, FALSE, FALSE)}

\* The stores found at start: the cache is empty, or (on a Redis server)
\* holds a value that is not JSON under the key of the text for u1
InitCache ==
    /\ ship = DefaultShip
    /\ backend \in Backends
    /\ users \in {f \in [UserIds -> UNION {PersistedProfiles(backend, u) : u \in UserIds}] :
                    \A u \in UserIds : f[u] \in PersistedProfiles(backend, u)}
    /\ leaderboard = [u \in {v \in UserIds : Exists(users[v])} |-> users[u].xp]
    /\ auth = <<>>
    /\ tables = BootTables
    /\ cache \in IF backend = "redis"
                 THEN {<<>>} \cup
                      {SetKey(<<>>,
                              generate_semantic_key(
                                  t, get_user_rank_data(
                                         [ship |-> ship, users |-> users,
                                          leaderboard |-> leaderboard, auth |-> auth,
                                          cache |-> <<>>, backend |-> backend,
                                          tables |-> tables], "u1")),
                              CorruptValue) : t \in CacheTexts}
                 ELSE {<<>>}
    /\ awards = [w \in Writers |-> IdleAward]
    /\ conns = <<>>
    /\ sessions = [c \in Sessions |-> NoSession]
    /\ casts = [b \in Casters |-> IdleCast]
    /\ reqs = [q \in ReqIds |-> Idle]
    /\ last = NoLast
    /\ nops = 0
    /\ probe = Cache

NextCache ==
    \/ \E q \in ReqIds, u \in UserIds, t \in CacheTexts : Command(q, u, t)
    \/ \E q \in ReqIds, o \in LLMOutcomes : LLMReturn(q, o)

SpecCache == InitCache /\ [][NextCache]_vars

----------------------------------------------------------------------------
(* mock_redis.py: MockRedis.zrevrange on its own.  The sorted set is a
   function from members to scores; indices are drawn from
   -MaxZIndex..MaxZIndex. *)

ZScores == [alice |-> 100, bob |-> 200, charlie |-> 150]

\* The sorted sets: the restrictions of ZScores to each set of members
ZSets == {[m \in ms |-> ZScores[m]] : ms \in SUBSET DOMAIN ZScores}

\* sorted(zset_data.items(), key=lambda x: x[1], reverse=True), the members
SortedDesc(zset) ==
    CHOOSE seq \in [1..Cardinality(DOMAIN zset) -> DOMAIN zset] :
        /\ \A i, j \in DOMAIN seq : i # j => seq[i] # seq[j]
        /\ \A i, j \in DOMAIN seq : i < j => zset[seq[i]] > zset[seq[j]]

\* items[a : b], zero-based, with Python's treatment of negative and
\* oversized bounds
PySliceBound(len, k) ==
    IF k < 0 THEN (IF len + k < 0 THEN 0 ELSE len + k)
    ELSE IF k > len THEN len ELSE k

PySlice(items, a, b) ==
    LET lo == PySliceBound(Len(items), a)
        hi == PySliceBound(Len(items), b)
    IN IF lo < hi THEN SubSeq(items, lo + 1, hi) ELSE <<>>

\* Lines 85-116, withscores = False
zrevrange(zset, start, end) ==
    IF DOMAIN zset = {} THEN <<>>
    ELSE LET items == SortedDesc(zset)
             start1 == IF start < 0 THEN Len(items) + start ELSE start
             start2 == IF start1 < 0 THEN 0 ELSE start1
             end1 == IF end < 0 THEN Len(items) + end ELSE end
             slice_end == end1 + 1
         IN PySlice(items, start2, slice_end)

InitZRange ==
    /\ ship = DefaultShip
    /\ backend = "mock"
    /\ users = [u \in UserIds |-> <<>>]
    /\ leaderboard = <<>>
    /\ auth = <<>>
    /\ cache = <<>>
    /\ tables = BootTables
    /\ awards = [w \in Writers |-> IdleAward]
    /\ conns = <<>>
    /\ sessions = [c \in Sessions |-> NoSession]
    /\ casts = [b \in Casters |-> IdleCast]
    /\ reqs = [q \in ReqIds |-> Idle]
    /\ last = NoLast
    /\ nops = 0
    /\ probe \in {[fn |-> "zrevrange", done |-> FALSE, zset |-> z, start |-> a,
                   end |-> b, out |-> <<>>] :
                     z \in ZSets, a \in -MaxZIndex..MaxZIndex, b \in -MaxZIndex..MaxZIndex}

ComputeZRange ==
    /\ probe.fn = "zrevrange"
    /\ ~probe.done
    /\ probe' = [probe EXCEPT !.done = TRUE,
                              !.out = zrevrange(probe.zset, probe.start, probe.end)]
    /\ UNCHANGED <<ship, users, leaderboard, auth, cache, backend, tables, awards,
                   conns, sessions, casts, reqs, last, nops>>

NextZRange == ComputeZRange

SpecZRange == InitZRange /\ [][NextZRange]_vars

----------------------------------------------------------------------------
(* generate_semantic_key on its own: the inputs are drawn in the initial
   state and the function is applied once *)

\* user_data as get_user_rank_data returns it, over the ranks, stages and
\* locations that profiles hold; xp stands for the fields outside the context
KeyUserData(xp) ==
    {[rank_level |-> r, mission_stage |-> m, current_location |-> l, xp |-> xp] :
        r \in {0, 1, 5}, m \in {1, 2, 6}, l \in {"Bridge", "Engineering"}}
    \cup {[rank_level |-> r, mission_stage |-> m, xp |-> xp] :
        r \in {0, 1, 5}, m \in {1, 2, 6}}

KeyTexts == {
    Txt(<<"analyze", "anomaly">>, FALSE, FALSE),
    Txt(<<"analyze", "anomaly">>, TRUE, TRUE),
    Txt(<<"eject", "warp", "core">>, FALSE, TRUE) }

InitKey ==
    /\ ship = DefaultShip
    /\ backend = "redis"
    /\ users = [u \in UserIds |-> <<>>]
    /\ leaderboard = <<>>
    /\ auth = <<>>
    /\ cache = <<>>
    /\ tables = BootTables
    /\ awards = [w \in Writers |-> IdleAward]
    /\ conns = <<>>
    /\ sessions = [c \in Sessions |-> NoSession]
    /\ casts = [b \in Casters |-> IdleCast]
    /\ reqs = [q \in ReqIds |-> Idle]
    /\ last = NoLast
    /\ nops = 0
    /\ probe \in {[fn |-> "generate_semantic_key", done |-> FALSE,
                   ta |-> ta, a |-> a, ka |-> <<>>, tb |-> tb, b |-> b, kb |-> <<>>] :
                      ta \in KeyTexts, tb \in KeyTexts,
                      a \in KeyUserData(0), b \in KeyUserData(10)}

ComputeKeys ==
    /\ probe.fn = "generate_semantic_key"
    /\ ~probe.done
    /\ probe' = [probe EXCEPT !.done = TRUE,
                              !.ka = generate_semantic_key(probe.ta, probe.a),
                              !.kb = generate_semantic_key(probe.tb, probe.b)]
    /\ UNCHANGED <<ship, users, leaderboard, auth, cache, backend, tables, awards, conns, sessions, casts, reqs, last, nops>>

NextKey == ComputeKeys

SpecKey == InitKey /\ [][NextKey]_vars

----------------------------------------------------------------------------
(* Vocabulary of the properties *)

\* The stored progression of a user, as the code reads it
RankLevel(h) == IF "rank_level" \in DOMAIN h THEN h.rank_level ELSE 0
MissionStage(h) == IF "mission_stage" \in DOMAIN h THEN h.mission_stage ELSE 1
Xp(h) == IF "xp" \in DOMAIN h THEN h.xp ELSE 0
StoredLocation(h) ==
    IF "current_location" \in DOMAIN h THEN h.current_location ELSE "Bridge"

\* No key of the store changes in the step
StoreUnchanged ==
    /\ ship' = ship
    /\ users' = users
    /\ leaderboard' = leaderboard
    /\ auth' = auth
    /\ cache' = cache
    /\ tables' = tables

\* The step is the receipt of a command; the step is a model call's completion
Received == last'.op = "command" /\ nops' = nops + 1
Returned == last'.op = "llm_return" /\ nops' = nops + 1

\* The restricted phrases of a text: the words of the phrase occur in it
RestrictedIn(text) ==
    {i \in DOMAIN RESTRICTED_COMMANDS :
        \E k \in 0..Len(text.w) :
            \A j \in DOMAIN RESTRICTED_COMMANDS[i].command :
                k + j <= Len(text.w) /\ text.w[k + j] = RESTRICTED_COMMANDS[i].command[j]}

LocationDenied(res) == res.response = LocationDeniedResponse

----------------------------------------------------------------------------
(* C1 *)

\* C1, as claimed: with no leak active, a command containing a restricted
\* phrase is denied if and only if the user's location differs from the
\* location that phrase requires.
C1_DeniedIffPhraseLocationDiffers ==
    [][ (Received /\ ship.radiation_leak = 0) =>
          \A i \in RestrictedIn(last'.text) :
              LocationDenied(last'.res) <=>
                  (StoredLocation(users[last'.uid]) # RESTRICTED_COMMANDS[i].loc)
      ]_vars

\* C1, amended: with no leak active, a command containing restricted phrases
\* is denied if and only if the user's location differs from the location
\* required by at least one of the phrases it contains; the denial names the
\* first such phrase and changes nothing in the store, and starts no model call.
C1_DeniedIffSomePhraseLocationDiffers ==
    [][ (Received /\ ship.radiation_leak = 0 /\ RestrictedIn(last'.text) # {}) =>
          LET loc == StoredLocation(users[last'.uid])
              bad == {i \in RestrictedIn(last'.text) : loc # RESTRICTED_COMMANDS[i].loc}
          IN /\ LocationDenied(last'.res) <=> (bad # {})
             /\ LocationDenied(last'.res) =>
                   /\ StoreUnchanged
                   /\ reqs' = reqs
                   /\ last'.res.updates = NoUpdates
                   /\ \E i \in bad :
                         /\ \A j \in bad : i <= j
                         /\ last'.res.required_loc = RESTRICTED_COMMANDS[i].loc
      ]_vars

\* A command with two restricted phrases was denied at the location that one
\* of them requires, in the name of the other
C1_Witness ==
    /\ last.op = "command"
    /\ LocationDenied(last.res)
    /\ \E i \in RestrictedIn(last.text) :
          StoredLocation(users[last.uid]) = RESTRICTED_COMMANDS[i].loc
    /\ last.res.required_loc # StoredLocation(users[last.uid])

----------------------------------------------------------------------------
(* C2 *)

\* C2: a command received while radiation_leak is nonzero gets the fixed
\* lockout response with empty updates, whatever its text and user, and
\* changes nothing in the store and starts no model call.
C2_LockoutDeniesEverything ==
    [][ (Received /\ ship.radiation_leak # 0) =>
          /\ last'.res = [updates |-> NoUpdates, response |-> LockoutResponse]
          /\ StoreUnchanged
          /\ reqs' = reqs
      ]_vars

C2_Witness ==
    /\ last.op = "command"
    /\ ship.radiation_leak # 0
    /\ last.res.response = LockoutResponse

----------------------------------------------------------------------------
(* C3 *)

\* The step completes request q with a model result that signals mission success
SuccessReturned(q, o) ==
    /\ LLMReturn(q, o)
    /\ o.kind = "ok"
    /\ MissionSuccess(o.data)

\* C3, as claimed: for every user below the maximum rank, registered or not,
\* a model result with mission_success = true leaves the stored rank_level
\* and mission_stage one higher, the xp at least 1000 higher, and rank_up in
\* the returned updates equal to the title of the new stored rank.
C3_SuccessPromotesEveryUser ==
    [][ \A q \in ReqIds, o \in LLMOutcomes :
          (SuccessReturned(q, o) /\ RankLevel(users[reqs[q].uid]) < max_rank_level) =>
             LET u == reqs[q].uid
             IN /\ RankLevel(users'[u]) = RankLevel(users[u]) + 1
                /\ MissionStage(users'[u]) = MissionStage(users[u]) + 1
                /\ Xp(users'[u]) >= Xp(users[u]) + 1000
                /\ "rank_up" \in DOMAIN last'.res.updates
                /\ last'.res.updates.rank_up = RankTitle(RankLevel(users'[u]))
      ]_vars

----------------------------------------------------------------------------
(* C4 *)

\* C4: for a user already at max_rank_level a mission_success result leaves
\* rank_level, rank title and mission_stage as they were, adds no 1000 XP
\* bonus (at most the flat 10) and puts no rank_up in the response.
C4_NoPromotionAtCeiling ==
    [][ \A q \in ReqIds, o \in LLMOutcomes :
          (SuccessReturned(q, o) /\ RankLevel(users[reqs[q].uid]) = max_rank_level) =>
             LET u == reqs[q].uid
             IN /\ RankLevel(users'[u]) = max_rank_level
                /\ users'[u].rank = users[u].rank
                /\ MissionStage(users'[u]) = MissionStage(users[u])
                /\ Xp(users'[u]) \in {Xp(users[u]), Xp(users[u]) + 10}
                /\ "rank_up" \notin DOMAIN last'.res.updates
      ]_vars

\* A mission_success result was handled for a user at the ceiling
C4_Witness ==
    /\ last.op = "llm_return"
    /\ last.path = "llm_ok"
    /\ MissionSuccess(last.res)
    /\ "rank_up" \notin DOMAIN last.res.updates
    /\ RankLevel(users[last.uid]) = max_rank_level

----------------------------------------------------------------------------
(* C5 *)

----------------------------------------------------------------------------
(* C6 *)

\* C6: every user's rank_level is in [0, 5] and mission_stage in [1, 6] in
\* every reachable state, also with several requests of one user in flight.
C6_RankAndStageInRange ==
    \A u \in UserIds :
        /\ RankLevel(users[u]) \in 0..max_rank_level
        /\ MissionStage(users[u]) \in 1..NumMissions

\* A promotion has taken a user to rank 5 and stage 6 while another request of
\* the same user is still waiting for the model
C6_Witness ==
    /\ last.op = "llm_return"
    /\ "rank_up" \in DOMAIN last.res.updates
    /\ RankLevel(users[last.uid]) = max_rank_level
    /\ MissionStage(users[last.uid]) = NumMissions
    /\ \E q \in ReqIds : reqs[q].pc = "llm" /\ reqs[q].uid = last.uid

----------------------------------------------------------------------------
(* C7 *)

\* C7: no step lowers a user's xp; a step that changes xp raises it.
C7_XpNeverDecreases ==
    [][ \A u \in UserIds : Xp(users'[u]) >= Xp(users[u]) ]_vars

\* A register message met a profile that already had xp
C7_Witness ==
    /\ last.op = "register"
    /\ last.path = "exists"
    /\ Xp(users[last.uid]) > 1

----------------------------------------------------------------------------
(* C8 *)

\* The three context fields of two user_data agree
SameContext(a, b) ==
    /\ a.rank_level = b.rank_level
    /\ a.mission_stage = b.mission_stage
    /\ ("current_location" \in DOMAIN a) = ("current_location" \in DOMAIN b)
    /\ "current_location" \in DOMAIN a => a.current_location = b.current_location

\* C8: the key depends only on the lower-cased trimmed text and on
\* (rank_level, mission_stage, current_location): inputs that agree on these
\* give the same key whatever else differs, and for one text two contexts that
\* differ in one of the three fields give different keys.
C8_KeyIsFunctionOfTextAndContext ==
    probe.fn = "generate_semantic_key" /\ probe.done =>
        /\ (probe.ta.w = probe.tb.w /\ SameContext(probe.a, probe.b))
              => probe.ka = probe.kb
        /\ (probe.ta = probe.tb /\ ~SameContext(probe.a, probe.b))
              => probe.ka # probe.kb

\* Keys were computed for one text in two contexts that differ in the
\* location alone
C8_Witness ==
    /\ probe.fn = "generate_semantic_key" /\ probe.done
    /\ probe.ta = probe.tb
    /\ probe.a.rank_level = probe.b.rank_level
    /\ probe.a.mission_stage = probe.b.mission_stage
    /\ ~SameContext(probe.a, probe.b)
    /\ probe.ka # probe.kb

----------------------------------------------------------------------------
(* C9 *)

\* C9: a cache hit returns the stored result as it is, starts no model call
\* and changes nothing in the store: ship, users, leaderboard, cache.
C9_CacheHitChangesNothing ==
    [][ (Received /\ last'.path = "cache_hit") =>
          /\ last'.res =
                cache[generate_semantic_key(last'.text,
                                            get_user_rank_data(Store, last'.uid))]
          /\ StoreUnchanged
          /\ reqs' = reqs
      ]_vars

\* A hit returned a stored result that carries updates
C9_Witness ==
    /\ last.op = "command"
    /\ last.path = "cache_hit"
    /\ last.res.updates # NoUpdates
    /\ \E k \in DOMAIN cache : cache[k] = last.res

----------------------------------------------------------------------------
(* C10 *)

\* C10: a model call that times out ends in the fixed "Processing delay"
\* response and one that fails with a network/HTTP error in the fixed "Sensor
\* arrays are offline" response, both with empty updates; the request ends
\* there (no second model call), and the store, the cache included, is unchanged.
C10_ModelFailureChangesNothing ==
    [][ \A q \in ReqIds, o \in LLMOutcomes :
          (LLMReturn(q, o) /\ o.kind \in {"timeout", "http_error"}) =>
             /\ last'.res = [updates |-> NoUpdates,
                             response |-> IF o.kind = "timeout" THEN TimeoutResponse
                                          ELSE OfflineResponse]
             /\ StoreUnchanged
             /\ reqs[q].key \notin DOMAIN cache => reqs[q].key \notin DOMAIN cache'
             /\ reqs' = [reqs EXCEPT ![q] = Idle]
      ]_vars

\* A request that missed the cache ended in the timeout response
C10_Witness ==
    /\ last.op = "llm_return"
    /\ last.path = "timeout"
    /\ last.res.response = TimeoutResponse
    /\ cache = <<>>

----------------------------------------------------------------------------
(* C11 *)

\* C11, as claimed: a request that ends with the "Data corruption" response
\* has changed nothing: users (rank_level, mission_stage, xp), leaderboard,
\* ship systems and cache are as before.
C11_DataCorruptionChangesNothing ==
    [][ (Returned /\ last'.res.response = CorruptionResponse) => StoreUnchanged ]_vars

----------------------------------------------------------------------------
(* C18 *)

\* C18, as claimed: in every reachable state each gauge of ship:systems is in
\* 0..100 and radiation_leak is 0 or 1.
C18_GaugesInRange ==
    \A f \in DOMAIN ship :
        IF f = "radiation_leak" THEN ship[f] \in {0, 1} ELSE ship[f] \in 0..100


(* C12 *)

\* The text is "authorize session <code>" and nothing else
IsAuthorize(text) ==
    \E c \in Codes : text.w = <<"authorize", "session", c>>

\* The code the text carries
CodeOf(text) == text.w[3]

\* C12: with no leak active, "authorize session <code>" from a user whose
\* rank_level is below 3 gets exactly the access-denied result with empty
\* updates, the same whether or not a live session carries the code, and
\* leaves every auth session, every profile, the leaderboard and the ship as
\* they were.
C12_LowRankAuthorizeDenied ==
    [][ ( /\ Received
          /\ ship.radiation_leak = 0
          /\ IsAuthorize(last'.text)
          /\ RankLevel(users[last'.uid]) < 3 )
        => ( /\ last'.res = [updates |-> NoUpdates, response |-> RankDeniedResponse]
             /\ last'.path = "turbo"
             /\ StoreUnchanged
             /\ reqs' = reqs ) ]_vars

\* A user below rank 3 was denied while a live session carried the code
C12_Witness ==
    /\ last.op = "command"
    /\ IsAuthorize(last.text)
    /\ last.res.response = RankDeniedResponse
    /\ \E k \in DOMAIN auth : auth[k] = CodeOf(last.text)

(* C13 *)

\* The sessions that carry code c
LiveSessions(a, c) == {k \in DOMAIN a : a[k] = c}

C14_ExpiredKeysAreGone ==
    [][ (last'.op = "ttl_elapsed" /\ nops' = nops + 1)
        => (auth' = <<>> /\ cache' = <<>>) ]_vars


(* C16 *)

\* C16, as claimed for the example it gives: a text that contains both an
\* easter-egg phrase and "status" resolves via the easter-egg rule.
C16_EasterEggBeforeStatus ==
    [][ ( /\ Received
          /\ ship.radiation_leak = 0
          /\ RestrictedIn(last'.text) = {}
          /\ Contains(last'.text.w, <<"joshua">>)
          /\ Contains(last'.text.w, <<"status">>) )
        => last'.res.response = FalkenResponse ]_vars

(* C17 *)

\* A request has been answered: by Command when it returns without a model
\* call, by LLMReturn otherwise
Completed ==
    \/ Received /\ last'.path # "await_llm"
    \/ Returned

\* C17, as claimed: with no leak active, "shields up" from a user with no
\* stored profile is answered with updates {shields: 100}, leaves shields at
\* 100 and leaves the user on the leaderboard with XP above zero.
C17_ShieldsUpByNewUser ==
    [][ ( /\ Completed
          /\ last'.text.w = <<"shields", "up">>
          /\ ship.radiation_leak = 0
          /\ ~Exists(users[last'.uid]) )
        => ( /\ last'.res.updates = [shields |-> 100]
             /\ ship'.shields = 100
             /\ last'.uid \in DOMAIN leaderboard'
             /\ leaderboard'[last'.uid] > 0 ) ]_vars


(* C15 *)

\* The step is a call of init_db
Bootstrapped == last'.op = "init_db" /\ nops' = nops + 1

\* C15: init_db called when max_rank_level exists changes nothing; called
\* when it does not exist, it writes the rank and mission tables and the
\* sentinel, writes the default ship state only if ship:systems is absent,
\* and changes no user, leaderboard entry, auth session or cache entry.  No
\* other step changes the tables, so every call after the first is of the
\* first kind: it never brings the ship state back to the baseline.
C15_InitDbIdempotent ==
    [][ /\ Exists(tables) => tables' = tables
        /\ Bootstrapped =>
              /\ users' = users /\ leaderboard' = leaderboard
              /\ auth' = auth /\ cache' = cache
              /\ tables' = BootTables
              /\ ship' = IF Exists(tables) \/ Exists(ship) THEN ship ELSE DefaultShip ]_vars

\* init_db was called again after a command of this run had changed the
\* ship state and created a profile
C15_Witness ==
    /\ last.op = "init_db"
    /\ last.path = "skipped"
    /\ ship.phasers = 75
    /\ Exists(users["u1"])


(* C19 *)

\* C19, as claimed: whenever no update_leaderboard call is in progress, the
\* leaderboard score of every user who has one equals the xp field of the
\* user's profile, however the store operations of concurrent calls
\* interleave.
C19_LeaderboardEqualsXp ==
    (\A w \in Writers : awards[w].pc = "idle")
        => \A u \in DOMAIN leaderboard : leaderboard[u] = Xp(users[u])


(* C20 *)

\* C20, as claimed: when a send of a broadcast raises while connections
\* with a working transport are still to come in the list, the broadcast
\* goes on to them, and the handler that initiated it stays connected and
\* running, or the simulator task stays alive.
C20_FailedSendIsSwallowed ==
    [][ ( /\ last'.op = "send" /\ last'.path = "raised" /\ nops' = nops + 1
          /\ \E j \in (casts[last'.uid].i + 1)..Len(conns) :
                sessions[conns[j]].transport = "open" )
        => LET b == last'.uid
           IN /\ casts'[b].pc = "sending"
              /\ b \in Sessions =>
                    /\ sessions'[b].handler # "ended"
                    /\ \E j \in DOMAIN conns' : conns'[j] = b
              /\ b = "simulator" => casts'[b].pc # "dead" ]_vars


(* C21 *)

\* c is in manager.active_connections
Connected(list, c) == \E j \in DOMAIN list : list[j] = c

\* C21, as claimed: the session whose transport made a send of a broadcast
\* raise is no longer among the active connections after that step, so that
\* no later broadcast sends to it.
C21_FailedSessionIsDropped ==
    [][ (last'.op = "send" /\ last'.path = "raised" /\ nops' = nops + 1)
        => ~Connected(conns', casts[last'.uid].to) ]_vars


(* C22 *)

\* message is among the state updates c was sent
WasSent(rcv, message) == \E j \in DOMAIN rcv : rcv[j] = message

\* C22, as claimed: when the broadcast that follows a leak trigger or a
\* handled message ends, every session that is connected with a working
\* transport has been sent its state_update, the ship state read when the
\* broadcast began.
C22_EveryConnectedSessionIsSent ==
    [][ \A b \in Casters :
          (casts[b].pc = "sending" /\ casts'[b].pc # "sending")
          => \A c \in Sessions :
                (Connected(conns, c) /\ sessions'[c].transport = "open")
                => WasSent(sessions'[c].received, casts[b].message) ]_vars


(* C23 *)

\* C23, as claimed: after a malformed message on a connection, one more
\* message has been sent on it, the connection is still open and among the
\* active connections, and its handler is receiving again.
C23_MalformedMessageIsAnswered ==
    [][ (last'.op = "malformed" /\ nops' = nops + 1)
        => LET c == last'.uid
           IN /\ Len(sessions'[c].received) = Len(sessions[c].received) + 1
              /\ sessions'[c].transport = "open"
              /\ sessions'[c].handler = "receive"
              /\ Connected(conns', c) ]_vars


(* C24 *)

AuthorizeUpdates == [shields |-> 0, phasers |-> 0]

Content(seq) == SelectSeq(seq, LAMBDA x : x \notin {FJ, F, SP})

DenialKeys == {"updates", "response"}

\* dict.get(key) on that dict
PyNone == "None"
DenialGet(res, key) == IF key \in DenialKeys THEN res[key] ELSE PyNone

\* C26: the result of a command denied for its location carries alert =
\* "location_denied" and required_location equal to the location required
\* by the phrase the denial names.
C26_DenialIsStructured ==
    [][ (Received /\ LocationDenied(last'.res)) =>
          /\ DenialGet(last'.res, "alert") = "location_denied"
          /\ DenialGet(last'.res, "required_location") = last'.res.required_loc
      ]_vars


(* C27 *)

\* C27: registering an id whose profile exists leaves the profile as it was
\* and reports the title of the rank the user holds.
C27_RegisterReportsCurrentRank ==
    [][ (last'.op = "register" /\ nops' = nops + 1 /\ Exists(users[last'.uid])) =>
          /\ users'[last'.uid] = users[last'.uid]
          /\ last'.res.response = RankTitle(RankLevel(users[last'.uid]))
      ]_vars


(* C28 *)

FixedLocations ==
    {"Bridge", "Engineering", "Ten Forward", "Sickbay", "Cargo Bay", "Jefferies Tube"}

\* C28: every user's stored location is always one of the fixed locations,
\* and a location_update whose token does not decode, or decodes to a value
\* outside them, answers with an error and changes nothing in the store.
C28_StoredLocationIsFixedLocation ==
    /\ [](\A u \in UserIds : StoredLocation(users[u]) \in FixedLocations)
    /\ [][ \A u \in UserIds, k \in Tokens :
             (LocationUpdate(u, k) /\ ~(k.ok /\ k.text \in FixedLocations)) =>
                 /\ last'.path = "error"
                 /\ last'.res.response \in {"Invalid location token.", "Invalid token format."}
                 /\ StoreUnchanged
         ]_vars

\* A user who had moved to Engineering sent a token for a place that is not
\* a location and was refused
C28_Witness ==
    /\ last.op = "location_update"
    /\ last.path = "error"
    /\ last.res.response = "Invalid location token."
    /\ StoredLocation(users[last.uid]) = "Engineering"


(* C29 *)

\* C29: calls of the mock model with the same command text on the same ship
\* state return the same response and the same, empty, updates.
C29_MockIsDeterministic ==
    probe.fn = "get_mock_llm_response"
    => \A i, j \in DOMAIN probe.outs :
          /\ probe.outs[i].response = probe.outs[j].response
          /\ probe.outs[i].updates = NoUpdates


(* C30 *)

\* C30: the gates run in the order lockout, location, fast path, cache,
\* model, and a command stopped by one gate does nothing of the later ones.
\* With a leak active every command gets the lockout response and changes
\* nothing.  Without a leak, a command holding a restricted phrase whose
\* location differs from the user's is denied: no auth session is created or
\* consumed, the ship state, the profiles and the cache are as before, and no
\* model call is started.  A command that passes both and matches a fast-path
\* pattern starts no model call and leaves the cache alone; one that matches
\* none and finds its key in the cache starts no model call; only the rest
\* start one.
C30_GatesInOrder ==
    [][ Received =>
          LET text == Lower(last'.text)
              loc == StoredLocation(users[last'.uid])
              denied == \E i \in RestrictedIn(text) : loc # RESTRICTED_COMMANDS[i].loc
              key == generate_semantic_key(last'.text, get_user_rank_data(Store, last'.uid))
          IN IF ship.radiation_leak # 0
             THEN /\ last'.res.response = LockoutResponse
                  /\ StoreUnchanged
                  /\ reqs' = reqs
             ELSE IF denied
             THEN /\ LocationDenied(last'.res)
                  /\ StoreUnchanged
                  /\ reqs' = reqs
             ELSE IF TurboRule(text) # "none"
             THEN /\ last'.path \in {"turbo", "exception"}
                  /\ cache' = cache
                  /\ reqs' = reqs
             ELSE IF key \in DOMAIN cache
             THEN /\ last'.path = "cache_hit"
                  /\ StoreUnchanged
                  /\ reqs' = reqs
             ELSE /\ last'.path = "await_llm"
                  /\ StoreUnchanged
                  /\ reqs' # reqs
      ]_vars

\* A user on the Bridge asked to authorize the live session 1234 in a command
\* that also holds a Sickbay phrase: the command was denied and the session
\* is still there
C30_Witness ==
    /\ last.op = "command"
    /\ LocationDenied(last.res)
    /\ TurboRule(Lower(last.text)) = "authorize_session"
    /\ \E u \in DOMAIN auth : auth[u] = "1234"
    /\ ship.radiation_leak = 0


(* C31 *)

\* The model result of an outcome says mission_success: true, the JSON
\* literal
SaysSuccess(outcome) ==
    /\ outcome.kind = "ok"
    /\ "mission_success" \in DOMAIN outcome.data
    /\ outcome.data.mission_success = JBool(TRUE)

\* C31: a step raises a user's rank_level only if it handles, for that user,
\* a model result whose mission_success is the literal true, or registers a
\* profile that did not exist; a step raises a user's mission_stage only in
\* the first case.  The handling of any other model result, and every
\* command, location update, radiation_cleared message and leak trigger,
\* raises neither.
C31_PromotionOnlyOnMissionSuccess ==
    [][ \A u \in UserIds :
          /\ RankLevel(users'[u]) > RankLevel(users[u]) =>
                \/ \E q \in ReqIds, o \in PromoOutcomes :
                      LLMReturn(q, o) /\ reqs[q].uid = u /\ SaysSuccess(o)
                \/ last'.op = "register" /\ last'.uid = u /\ ~Exists(users[u])
          /\ MissionStage(users'[u]) > MissionStage(users[u]) =>
                \E q \in ReqIds, o \in PromoOutcomes :
                   LLMReturn(q, o) /\ reqs[q].uid = u /\ SaysSuccess(o)
      ]_vars

\* A model result with mission_success: "true", a string, was handled for an
\* Ensign, who is still an Ensign
C31_Witness ==
    /\ last.op = "llm_return"
    /\ last.path = "llm_ok"
    /\ "mission_success" \in DOMAIN last.res
    /\ last.res.mission_success = JStr("true")
    /\ RankLevel(users[last.uid]) = 1


(* C32 *)

\* C32: the wake-word rule answers only the bare wake word.  A command that
\* holds the wake word and other words, is matched by no earlier rule and is
\* stopped by neither the lockout nor the location gate, is not answered
\* with "Awaiting command.": it goes on to the cache or the model.
C32_WakeWordOnlyWhenBare ==
    [][ ( /\ Received
          /\ ship.radiation_leak = 0
          /\ \E i \in DOMAIN last'.text.w : last'.text.w[i] = "computer"
          /\ Len(last'.text.w) > 1
          /\ TurboRule(Lower(last'.text)) \notin
                {"status", "falken", "initiate_auth", "authorize_session"}
          /\ ~LocationDenied(last'.res) )
        => ( /\ last'.res.response # AwaitingResponse
             /\ last'.path \in {"cache_hit", "await_llm"} )
      ]_vars


(* C33 *)

\* C33: the cache changes only in a step that handled a model result
\* without error, and what is written is that result under the key the
\* request computed before it called the model; that key is the key of the
\* request's text and of the context stored when the command arrived.  A
\* command whose key holds a value that is not JSON is not answered with
\* that value: it goes on to the model call.
C33_CacheWrittenAfterSuccessOnly ==
    [][ /\ cache' # cache =>
             /\ Returned
             /\ last'.path = "llm_ok"
             /\ \E q \in ReqIds :
                   /\ reqs[q].pc = "llm"
                   /\ reqs'[q].pc = "idle"
                   /\ cache' = SetKey(cache, reqs[q].key, last'.res)
        /\ (Received /\ last'.path = "await_llm") =>
             \E q \in ReqIds :
                /\ reqs[q].pc = "idle"
                /\ reqs'[q].pc = "llm"
                /\ reqs'[q].key =
                      generate_semantic_key(last'.text, get_user_rank_data(Store, last'.uid))
        /\ ( /\ Received
             /\ ship.radiation_leak = 0
             /\ LET key == generate_semantic_key(last'.text,
                                                 get_user_rank_data(Store, last'.uid))
                IN key \in DOMAIN cache /\ cache[key] = CorruptValue ) =>
             /\ last'.path = "await_llm"
             /\ last'.res # CorruptValue
      ]_vars

\* A command found a value that is not JSON under its key and is waiting for
\* the model
C33_Witness ==
    /\ last.op = "command"
    /\ last.path = "await_llm"
    /\ \E q \in ReqIds :
          /\ reqs[q].pc = "llm"
          /\ reqs[q].key \in DOMAIN cache
          /\ cache[reqs[q].key] = CorruptValue


(* C34 *)

\* The members at ranks first..last, counted from 0 in descending order of
\* score, after a negative index was counted from the end of the set; empty
\* when that range is empty
RanksOf(zset, start, end) ==
    LET n == Cardinality(DOMAIN zset)
        first == IF start < 0 THEN (IF n + start < 0 THEN 0 ELSE n + start) ELSE start
        last_ == IF end < 0 THEN n + end ELSE end
        upto == IF last_ >= n THEN n - 1 ELSE last_
    IN IF n = 0 \/ first > upto \/ upto < 0 THEN <<>>
       ELSE [i \in 1..(upto - first + 1) |->
                CHOOSE m \in DOMAIN zset :
                    Cardinality({x \in DOMAIN zset : zset[x] > zset[m]}) = first + i - 1]

\* C34: zrevrange(name, start, end) returns exactly the members at ranks
\* start..end inclusive in descending order of score, negative indices
\* counting from the end, and the empty list when the range is empty.
C34_ZRevRangeIsRankRange ==
    (probe.fn = "zrevrange" /\ probe.done)
    => probe.out = RanksOf(probe.zset, probe.start, probe.end)


(* C35 *)

\* C35: while radiation_leak is 1 no step of a command, neither its arrival
\* nor the handling of its model result, changes the ship systems, a user's
\* xp, rank_level or mission_stage, or a leaderboard score.
C35_NoCommandEffectsDuringLeak ==
    [][ ((Received \/ Returned) /\ ship.radiation_leak = 1) =>
          /\ ship' = ship
          /\ leaderboard' = leaderboard
          /\ \A u \in UserIds :
                /\ Xp(users'[u]) = Xp(users[u])
                /\ RankLevel(users'[u]) = RankLevel(users[u])
                /\ MissionStage(users'[u]) = MissionStage(users[u])
      ]_vars


(* C36 *)

\* The profile fields other than xp
ProfileFields == {"name", "rank", "rank_level", "mission_stage", "current_location"}

\* C36: a step that adds XP to a user whose hash exists, and that is not the
\* handling of a mission_success result for that user, leaves every other
\* field of the hash as it was, present or absent.
C36_AwardChangesOnlyXp ==
    [][ \A u \in UserIds :
          ( /\ Exists(users[u])
            /\ Xp(users'[u]) > Xp(users[u])
            /\ ~\E q \in ReqIds, o \in LLMOutcomes :
                   LLMReturn(q, o) /\ reqs[q].uid = u /\ SaysSuccess(o) )
          => \A f \in ProfileFields :
                /\ (f \in DOMAIN users'[u]) = (f \in DOMAIN users[u])
                /\ f \in DOMAIN users[u] => users'[u][f] = users[u][f]
      ]_vars


(* C37 *)

\* C37: whenever the result returned for a command, at once or after the
\* model call, has rank_up among its updates, the rank_level of the user who
\* sent the command was raised in that step.
C37_RankUpMeansPromoted ==
    [][ ((Received \/ Returned) /\ "rank_up" \in DOMAIN last'.res.updates) =>
          RankLevel(users'[last'.uid]) > RankLevel(users[last'.uid])
      ]_vars


(* C38 *)

\* C38: when the model result of a request is handled after another request
\* with the same key has written the cache (both missed it while in flight),
\* the ship state, the profiles and the leaderboard are left as they are:
\* the effects of the result were applied once, by the first.
C38_EffectsAppliedOnce ==
    [][ ( /\ Returned
          /\ \E q \in ReqIds :
                /\ reqs[q].pc = "llm"
                /\ reqs'[q].pc = "idle"
                /\ reqs[q].key \in DOMAIN cache )
        => ( /\ ship' = ship
             /\ users' = users
             /\ leaderboard' = leaderboard )
      ]_vars


(* C39 *)

\* C39: the simulator task never ends: after every iteration, also one whose
\* broadcast met a send that raised, it is asleep until the next interval or
\* in the middle of a broadcast.
C39_SimulatorKeepsRunning ==
    probe = Cast => casts["simulator"].pc \in {"idle", "sending"}


(* C40 *)

\* C40: a radiation_cleared message handled while radiation_leak is 0
\* changes no user's xp and no leaderboard score.
C40_NoAwardWithoutLeak ==
    [][ (last'.op = "radiation_cleared" /\ nops' = nops + 1 /\ ship.radiation_leak = 0) =>
          /\ \A u \in UserIds : Xp(users'[u]) = Xp(users[u])
          /\ leaderboard' = leaderboard
      ]_vars

====
